---------------------------- MODULE Spec2Model ----------------------------
(***************************************************************************)
(* Offline music player: the playback controller of src/App.tsx (queue,    *)
(* pointer, playing flag, shuffle and repeat modes, the play-count         *)
(* tracker) together with the media element it drives, and the IndexedDB   *)
(* library store of services/db (src/unnamed/part_001).                    *)
(*                                                                         *)
(* One action is one event of the browser's event loop: the handler, the   *)
(* React re-render it causes and the effects that re-render runs, in the   *)
(* order the component declares them.                                      *)
(***************************************************************************)
EXTENDS Integers, Sequences, FiniteSets, TLC

(***************************************************************************)
(* Bounds of the model.                                                    *)
(***************************************************************************)
\* number of distinct song identities
NumSongs == 2
\* number of playlists in the store
NumPlaylists == 1
\* playback positions are whole seconds 0..MaxPos
MaxPos == 5

(***************************************************************************)
(* Program constants.                                                      *)
(***************************************************************************)
PLAY_COUNT_THRESHOLD_S == 5
PREV_RESTART_THRESHOLD_S == 3

IdNames == <<"A", "B", "C", "D", "E">>
SongIds == {IdNames[i] : i \in 1..NumSongs}
PlaylistIds == 1..NumPlaylists
Positions == 0..MaxPos
None == "NONE"

ShuffleModes == <<"none", "random", "weighted">>
RepeatModes == <<"none", "all", "one">>

(***************************************************************************)
(* Sequence helpers (JavaScript array operations, 0-based indices).        *)
(***************************************************************************)
Range(s) == {s[i] : i \in 1..Len(s)}

\* Array.prototype.findIndex(s => s.id === id): first match, -1 when absent
FindIndex(s, id) ==
    IF \E i \in 1..Len(s) : s[i] = id
    THEN (CHOOSE i \in 1..Len(s) : s[i] = id /\ \A j \in 1..(i-1) : s[j] # id) - 1
    ELSE -1

\* Array.prototype.indexOf on the mode tables
ModeIndex(modes, m) == CHOOSE i \in 1..Len(modes) : modes[i] = m

\* playQueue[currentSongIndex]: undefined (None) outside the array
ElementAt(q, i) == IF i >= 0 /\ i < Len(q) THEN q[i + 1] ELSE None

Swap(s, i, j) == [s EXCEPT ![i] = s[j], ![j] = s[i]]

\* all arrangements of the elements of a finite set
RECURSIVE Arrangements(_)
Arrangements(S) ==
    IF S = {} THEN {<<>>}
    ELSE UNION {{<<x>> \o t : t \in Arrangements(S \ {x})} : x \in S}

\* keys of an object store come back from getAll in key order
RECURSIVE InKeyOrder(_)
InKeyOrder(S) ==
    IF S = {} THEN <<>>
    ELSE LET k == CHOOSE i \in 1..Len(IdNames) :
                     IdNames[i] \in S /\ \A j \in 1..(i-1) : IdNames[j] \notin S
         IN <<IdNames[k]>> \o InKeyOrder(S \ {IdNames[k]})


(***************************************************************************)
(* Queue builder.  A song snapshot in a queue is represented by its        *)
(* identity; the outcome of Math.random() is a nondeterministic choice, so *)
(* getShuffledQueue yields the set of queues it can return.                *)
(***************************************************************************)
\* the Fisher-Yates loop: for i = n-1 .. 1, j in 0..i, swap (1-based here)
RECURSIVE FisherYates(_, _)
FisherYates(queue, i) ==
    IF i <= 1 THEN {queue}
    ELSE UNION {FisherYates(Swap(queue, i, j), i - 1) : j \in 1..i}

\* queue.sort with a comparator whose sign is random for every pair (both
\* weights are at least 1): any rearrangement of the positions can result
RandomComparatorSort(queue) ==
    LET n == Len(queue)
        Bij == {p \in [1..n -> 1..n] : \A a, b \in 1..n : p[a] = p[b] => a = b}
    IN {[i \in 1..n |-> queue[p[i]]] : p \in Bij}

\* mutant: mode none shuffles as well
getShuffledQueue_AlwaysShuffles(sourceQueue, mode) ==
    IF mode = "weighted" THEN RandomComparatorSort(sourceQueue)
    ELSE FisherYates(sourceQueue, Len(sourceQueue))

getShuffledQueue(sourceQueue, mode) ==
    IF mode = "random" THEN FisherYates(sourceQueue, Len(sourceQueue))
    ELSE IF mode = "weighted" THEN RandomComparatorSort(sourceQueue)
    ELSE {sourceQueue}

(***************************************************************************)
(* State.                                                                  *)
(***************************************************************************)
VARIABLES
    \* React state of App
    songs,              \* in-memory library, a sequence of song identities
    playlists,          \* playlist id -> sequence of song identities
    activeView,         \* [type |-> "library" | "playlist", id |-> n]
    isLoading,          \* the initial load has not finished
    currentSongIndex,   \* pointer into playQueue, -1 when none
    playQueue,          \* sequence of song identities
    isPlaying,
    currentTime,        \* position as last reported to React
    shuffleMode,
    repeatMode,
    \* playCountTrackedRef holds keys `${id}-${Date.now()}`: trackedNow is
    \* the identities whose key carries the current millisecond.  A key of
    \* an earlier millisecond is never looked up again (the clock does not
    \* return to it), so it is not kept.
    trackedNow,
    \* the media element behind audioRef
    audioSrc,           \* identity of the loaded source, None when none
    audioCurrentTime,   \* audio.currentTime
    audioPaused,        \* audio.paused
    \* library store (IndexedDB)
    dbSongs,            \* object store "songs": a set of records keyed by id
    dbPlaylists,        \* object store "playlists": id -> song identities
    tx,                 \* the open readwrite transaction on "songs", or NoTx
    \* observation of the store's operations
    putRecord,          \* id -> the record last put by addSongs (or NoSong)
    incDone,            \* id -> increments completed since that put
    overwritten,        \* ids whose stored record an addSongs call replaced
                        \* by a different one
    \* the scanFiles call in flight
    scan,               \* NoScan, or [stage, newSongs]
    \* the last call of getShuffledQueue made on its own
    built,              \* NoBuild, or [mode, arg, source, queue]
    \* React state fed by the loadedmetadata listener
    duration,           \* audio.duration as last reported to React
    \* the handleAddSongToPlaylist and handleCreatePlaylist calls waiting at
    \* their await, oldest first
    adding,             \* sequence of [playlistId, songIds, playlists, stage]
    \* dbPromise of services/db: the one openDB call all operations await
    dbPromise,          \* "pending" | "open" | "failed"
    \* React state of the song list's header
    searchQuery,        \* the text of the search box, a sequence of letters
    supplied,           \* the list the last row click handed to playSong
    \* the incrementPlayCount calls that have not settled, oldest first
    incrementing,       \* sequence of song identities
    \* the weights of the last weighted shuffle looked at on its own
    weighed,            \* NoWeights, or [playCounts, weights]
    \* the service worker: CacheStorage of the origin and the activate event
    caches,             \* the names of the caches that exist
    activation,         \* [stage, before, cacheNames, deleting, deleted]
    \* observation of the last event
    lastEvent,          \* [op |-> handler, branch |-> path taken]
    lastCall,           \* [id, phase] of the incrementPlayCount call the
                        \* last event issued (phase: the session's phase
                        \* when it was issued), NoCall when it issued none
    \* play-session bookkeeping for the tracker's claims
    phase               \* "fresh" | "counted" | "paused" | "resumed" | "ended"

reactVars == <<songs, playlists, activeView, isLoading, currentSongIndex,
               playQueue, isPlaying, currentTime, shuffleMode, repeatMode>>
trackerVars == <<trackedNow>>
audioVars == <<audioSrc, audioCurrentTime, audioPaused>>
\* state that only the builder, the seek bar, the playlist modal and the
\* opening of the database touch
\* the search box of the song list
viewVars == <<searchQuery, supplied>>
\* the state of the service worker
workerVars == <<caches, activation>>
\* state of the parts studied on their own
laterVars == <<weighed, workerVars>>
restVars == <<viewVars, incrementing, laterVars>>
otherVars == <<built, duration, adding, dbPromise, restVars>>
dbVars == <<dbSongs, dbPlaylists, tx, putRecord, incDone, overwritten, scan,
           otherVars>>
obsVars == <<lastEvent, lastCall, phase>>
vars == <<reactVars, trackerVars, audioVars, dbVars, obsVars>>

NoCall == [id |-> None, phase |-> "fresh"]
Event(op, branch) == [op |-> op, branch |-> branch]

LibraryView == [type |-> "library", id |-> 0]
PlaylistView(p) == [type |-> "playlist", id |-> p]

\* a stored song
SongRecord(id, title, playCount) ==
    [id |-> id, title |-> title, playCount |-> playCount]
\* the result of a get that finds nothing (undefined)
NoSong == SongRecord(None, "", 0)
NoTx == [id |-> None, song |-> NoSong]
\* useState(''): the search box is empty
NoQuery == <<>>
\* the weighted comparator has not been looked at
NoWeights == [playCounts |-> <<>>, weights |-> <<>>]
\* the activate event has not been dispatched
NotActivated == [stage |-> "none", before |-> {}, cacheNames |-> <<>>,
                 deleting |-> {}, deleted |-> {}]
\* getShuffledQueue has not been called
NoBuild == [mode |-> None, arg |-> <<>>, source |-> <<>>, queue |-> <<>>]
\* no scanFiles call is running (isScanning is false)
NoScan == [stage |-> "none", newSongs |-> <<>>]

(***************************************************************************)
(* Effects.  Each takes the state the handler asked for (nq, ni, np, nt:   *)
(* the next playQueue, currentSongIndex, isPlaying, currentTime; qset:     *)
(* setPlayQueue was called, which installs a new array) and runs only when *)
(* one of its dependencies differs from the previous render.               *)
(***************************************************************************)
Audio(src, time, paused) == [src |-> src, time |-> time, paused |-> paused]

\* useEffect(..., [isPlaying]): audio.play() or audio.pause()
PlayPauseEffect(np, a) ==
    IF np # isPlaying
    THEN Audio(a.src, a.time, ~np)
    ELSE a

\* useEffect(..., [currentSongIndex, playQueue, isPlaying]): assigning
\* audio.src runs the media element's load algorithm (paused, position 0);
\* play() follows when isPlaying
SourceLoadEffect(nq, qset, ni, np, a) ==
    LET currentSong == ElementAt(nq, ni)
    IN IF (ni # currentSongIndex \/ qset \/ np # isPlaying) /\ currentSong # None
       THEN Audio(currentSong, 0, ~np)
       ELSE a

\* useEffect(..., [currentTime, isPlaying, currentSongIndex, playQueue]):
\* the key is `${currentSong.id}-${Date.now()}`, so it is in the set only
\* when the same identity was added within the current millisecond
PlayCountEffect(nq, qset, ni, np, nt) ==
    LET currentSong == ElementAt(nq, ni)
        runs == nt # currentTime \/ np # isPlaying \/ ni # currentSongIndex \/ qset
    IN IF ~runs \/ currentSong = None
       THEN [now |-> trackedNow, call |-> None]
       ELSE IF np /\ nt >= PLAY_COUNT_THRESHOLD_S /\ currentSong \notin trackedNow
       THEN [now |-> trackedNow \cup {currentSong}, call |-> currentSong]
       ELSE IF ~np /\ ni # -1
       THEN [now |-> {}, call |-> None]
       ELSE [now |-> trackedNow, call |-> None]

(***************************************************************************)
(* Play-session bookkeeping.  kind says what the event did to the session  *)
(* of the current track: "move" (the pointer changed or the queue was      *)
(* rebuilt), "stop" (playback stopped at the end of the queue), "pause",   *)
(* "resume", "other".  phase: "fresh" (the current track has not been      *)
(* counted since the pointer came to it), "counted" (counted, playing      *)
(* since), "paused" (counted, then paused), "resumed" (counted, paused,    *)
(* resumed), "ended" (counted, then stopped at the end).                   *)
(***************************************************************************)
PhaseAfter(kind) ==
    IF kind = "move" THEN "fresh"
    ELSE IF kind = "stop" THEN (IF phase = "fresh" THEN "fresh" ELSE "ended")
    ELSE IF kind = "pause" /\ phase \in {"counted", "resumed"} THEN "paused"
    ELSE IF kind = "resume" /\ phase = "paused" THEN "resumed"
    ELSE phase

Observe(ev, kind, call) ==
    /\ lastEvent' = ev
    /\ lastCall' = IF call = None THEN NoCall
                   ELSE [id |-> call, phase |-> PhaseAfter(kind)]
    /\ phase' = IF call = None THEN PhaseAfter(kind) ELSE "counted"

(***************************************************************************)
(* Render: commit the handler's state updates and run the effects in the   *)
(* order of their declaration.  a is the media element as the handler left *)
(* it.                                                                     *)
(***************************************************************************)
Render(ev, kind, nq, qset, ni, np, nt, a) ==
    LET a1 == PlayPauseEffect(np, a)
        a2 == SourceLoadEffect(nq, qset, ni, np, a1)
        pc == PlayCountEffect(nq, qset, ni, np, nt)
    IN /\ playQueue' = nq
       /\ currentSongIndex' = ni
       /\ isPlaying' = np
       /\ currentTime' = nt
       /\ audioSrc' = a2.src
       /\ audioCurrentTime' = a2.time
       /\ audioPaused' = a2.paused
       /\ trackedNow' = pc.now
       /\ Observe(ev, kind, pc.call)

TheAudio == Audio(audioSrc, audioCurrentTime, audioPaused)

\* an event that changes no React state: no render, no effect
NoRender(ev, a) ==
    /\ UNCHANGED <<playQueue, currentSongIndex, isPlaying, currentTime>>
    /\ audioSrc' = a.src
    /\ audioCurrentTime' = a.time
    /\ audioPaused' = a.paused
    /\ UNCHANGED trackerVars
    /\ Observe(ev, "other", None)

(***************************************************************************)
(* Views.                                                                  *)
(***************************************************************************)
\* playlist.songIds.map(id => songs.find(s => s.id === id)): an identity
\* that resolves to no song yields undefined (None)
Resolve(songIds) ==
    [i \in 1..Len(songIds) |->
        IF songIds[i] \in Range(songs) THEN songIds[i] ELSE None]

\* the items of the active view before the search filter and the sort
ViewItems ==
    IF activeView.type = "playlist"
    THEN IF activeView.id \in DOMAIN playlists
         THEN SelectSeq(Resolve(playlists[activeView.id]), LAMBDA x : x # None)
         ELSE <<>>
    ELSE songs

\* filteredAndSortedSongs over every search query and sort option: the
\* filter keeps any subset of the items, the sort puts them in any order
FilteredAndSortedSongs ==
    UNION {Arrangements(S) : S \in SUBSET Range(ViewItems)}

(***************************************************************************)
(* Initial state: the component has mounted, the store holds a library     *)
(* from earlier sessions, nothing is loaded yet.                           *)
(***************************************************************************)
StoredLibraries == {{SongRecord(id, "t1", 0) : id \in SongIds}}
\* a stored playlist holds the library in reverse key order without the
\* song of the first key
ReverseKeyOrder(S) ==
    LET s == InKeyOrder(S) IN [i \in 1..Len(s) |-> s[Len(s) + 1 - i]]
StoredPlaylists(S) == {ReverseKeyOrder(S \ {IdNames[1]})}
Keys(store) == {r.id : r \in store}

\* the component after its first render
ComponentMounted ==
    /\ songs = <<>>
    /\ playlists = <<>>
    /\ activeView = LibraryView
    /\ isLoading = TRUE
    /\ currentSongIndex = -1
    /\ playQueue = <<>>
    /\ isPlaying = FALSE
    /\ currentTime = 0
    /\ shuffleMode = "none"
    /\ repeatMode = "none"
    /\ trackedNow = {}
    /\ audioSrc = None
    /\ audioCurrentTime = 0
    /\ audioPaused = TRUE
    /\ lastEvent = Event("mount", "-")
    /\ lastCall = NoCall
    /\ phase = "fresh"
    /\ duration = 0
    /\ adding = <<>>
    /\ searchQuery = NoQuery
    /\ supplied = <<>>
    /\ incrementing = <<>>
    /\ weighed = NoWeights

\* the component has mounted and no service worker event is under way
AppMounted ==
    /\ ComponentMounted
    /\ caches = {}
    /\ activation = NotActivated

Init ==
    /\ AppMounted
    /\ dbSongs \in StoredLibraries
    /\ dbPlaylists \in [PlaylistIds -> StoredPlaylists(Keys(dbSongs))]
    /\ tx = NoTx
    /\ putRecord = [id \in SongIds |-> NoSong]
    /\ incDone = [id \in SongIds |-> 0]
    /\ overwritten = {}
    /\ scan = NoScan
    /\ built = NoBuild
    /\ dbPromise = "open"

(***************************************************************************)
(* Handlers.                                                               *)
(***************************************************************************)
\* loadInitialData: getSongs and getPlaylists, then setSongs, setPlaylists
LoadInitialData ==
    /\ isLoading
    /\ songs' = InKeyOrder(Keys(dbSongs))
    /\ playlists' = dbPlaylists
    /\ isLoading' = FALSE
    /\ UNCHANGED <<activeView, shuffleMode, repeatMode, dbVars>>
    /\ NoRender(Event("loadInitialData", "-"), TheAudio)

\* the sidebar buttons: setActiveView
SetActiveView ==
    /\ \E v \in {LibraryView} \cup {PlaylistView(p) : p \in DOMAIN playlists} :
          /\ v # activeView
          /\ activeView' = v
    /\ UNCHANGED <<songs, playlists, isLoading, shuffleMode, repeatMode, dbVars>>
    /\ NoRender(Event("setActiveView", "-"), TheAudio)

\* mutant: the pointer is the index in the source list, also when the queue
\* was shuffled
PlayOutcomes_SourceIndex(song, songList) ==
    LET index == FindIndex(songList, song)
    IN IF index > -1
       THEN {[branch |-> "play", queue |-> q, index |-> index, playing |-> TRUE] :
                q \in getShuffledQueue(songList, shuffleMode)}
       ELSE {[branch |-> "absent", queue |-> playQueue,
              index |-> currentSongIndex, playing |-> isPlaying]}

\* playSong(song, songList): the state it sets, one outcome for every
\* queue the shuffle can return; "absent" is the path that sets nothing
PlayOutcomes(song, songList) ==
    LET index == FindIndex(songList, song)
    IN IF index > -1
       THEN IF shuffleMode # "none"
            THEN {[branch |-> "play", queue |-> shuffledQueue,
                   index |-> FindIndex(shuffledQueue, song), playing |-> TRUE] :
                     shuffledQueue \in getShuffledQueue(songList, shuffleMode)}
            ELSE {[branch |-> "play", queue |-> songList, index |-> index,
                   playing |-> TRUE]}
       ELSE {[branch |-> "absent", queue |-> playQueue,
              index |-> currentSongIndex, playing |-> isPlaying]}

playSong(op, song, songList) ==
    \E o \in PlayOutcomes(song, songList) :
       IF o.branch = "play"
       THEN Render(Event(op, "play"), "move", o.queue, TRUE, o.index, o.playing,
                   currentTime, TheAudio)
       ELSE NoRender(Event(op, "absent"), TheAudio)

\* a row of the song list: playSong(song, filteredAndSortedSongs)
PlaySong ==
    /\ ~isLoading
    /\ \E songList \in FilteredAndSortedSongs :
          \E song \in Range(songList) : playSong("playSong", song, songList)
    /\ UNCHANGED <<songs, playlists, activeView, isLoading, shuffleMode,
                   repeatMode, dbVars>>

handlePlayPause ==
    IF Len(playQueue) > 0
    THEN Render(Event("handlePlayPause", IF isPlaying THEN "pause" ELSE "resume"),
                IF isPlaying THEN "pause" ELSE "resume",
                playQueue, FALSE, currentSongIndex, ~isPlaying, currentTime,
                TheAudio)
    ELSE IF Len(songs) > 0
    THEN playSong("handlePlayPause", songs[1], songs)
    ELSE NoRender(Event("handlePlayPause", "empty"), TheAudio)

HandlePlayPause ==
    /\ handlePlayPause
    /\ UNCHANGED <<songs, playlists, activeView, isLoading, shuffleMode,
                   repeatMode, dbVars>>

\* mutant: stopping at the end also clears the pointer
NextStep_StopClearsPointer(queueLength, index, repeat, playing) ==
    LET nextIndex == index + 1
    IN IF nextIndex >= queueLength
       THEN IF repeat = "all"
            THEN [branch |-> "wrap", index |-> 0, playing |-> playing]
            ELSE [branch |-> "stop", index |-> -1, playing |-> FALSE]
       ELSE [branch |-> "advance", index |-> nextIndex, playing |-> playing]

\* playNextSong below the repeat-one test: the next pointer and flag
NextStep(queueLength, index, repeat, playing) ==
    LET nextIndex == index + 1
    IN IF nextIndex >= queueLength
       THEN IF repeat = "all"
            THEN [branch |-> "wrap", index |-> 0, playing |-> playing]
            ELSE [branch |-> "stop", index |-> index, playing |-> FALSE]
       ELSE [branch |-> "advance", index |-> nextIndex, playing |-> playing]

\* mutant: repeat one plays on without the seek to 0
RepeatOneReplay_NoSeek == Audio(audioSrc, audioCurrentTime, FALSE)

\* repeat one: audio.currentTime = 0; audio.play()
RepeatOneReplay == Audio(audioSrc, 0, FALSE)

\* the state a render's playNextSong closes over
RenderOf(queue, index, repeat) ==
    [playQueue |-> queue, currentSongIndex |-> index, repeatMode |-> repeat]

\* the render on screen
ThisRender == RenderOf(playQueue, currentSongIndex, repeatMode)

\* playNextSong as created by the given render; the setters act on the
\* state of the component
playNextSongOf(op, render) ==
    IF Len(render.playQueue) = 0
    THEN NoRender(Event(op, "empty"), TheAudio)
    ELSE IF render.repeatMode = "one"
    THEN \* no state is set
         NoRender(Event(op, "repeatOne"), RepeatOneReplay)
    ELSE LET n == NextStep(Len(render.playQueue), render.currentSongIndex,
                           render.repeatMode, isPlaying)
         IN Render(Event(op, n.branch),
                   IF n.branch = "stop" THEN "stop"
                   ELSE IF n.index # currentSongIndex THEN "move" ELSE "other",
                   playQueue, FALSE, n.index, n.playing, currentTime, TheAudio)

playNextSong(op) == playNextSongOf(op, ThisRender)

\* the Next button
PlayNextSong ==
    /\ playNextSong("playNextSong")
    /\ UNCHANGED <<songs, playlists, activeView, isLoading, shuffleMode,
                   repeatMode, dbVars>>

\* mutant: the listeners are attached once, by the render of the mount
ListenerRender_OfMount == RenderOf(<<>>, -1, "none")

\* the render whose handleEnded is attached to the element: the listener
\* effect runs again after every render in which playQueue,
\* currentSongIndex or repeatMode changed, which is all that playNextSong
\* reads, so it is the render on screen
ListenerRender == ThisRender

\* the media element's ended event: handleEnded calls the playNextSong of
\* the render that attached it
HandleEnded ==
    /\ audioSrc # None
    /\ ~audioPaused
    /\ audioCurrentTime > 0
    /\ playNextSongOf("handleEnded", ListenerRender)
    /\ UNCHANGED <<songs, playlists, activeView, isLoading, shuffleMode,
                   repeatMode, dbVars>>

\* mutant: the restart test uses the play-count threshold
PrevRestarts_WrongThreshold(position) == position > PLAY_COUNT_THRESHOLD_S

\* audio.currentTime > 3
PrevRestarts(position) == position > PREV_RESTART_THRESHOLD_S

\* mutant: the first track wraps to the last whatever the repeat mode
PrevStep_AlwaysWraps(queueLength, index, repeat) ==
    LET prevIndex == index - 1
    IN IF prevIndex < 0
       THEN [branch |-> "wrap", index |-> queueLength - 1]
       ELSE [branch |-> "back", index |-> prevIndex]

\* playPrevSong below the restart test
PrevStep(queueLength, index, repeat) ==
    LET prevIndex == index - 1
    IN IF prevIndex < 0
       THEN IF repeat = "all"
            THEN [branch |-> "wrap", index |-> queueLength - 1]
            ELSE [branch |-> "noop", index |-> index]
       ELSE [branch |-> "back", index |-> prevIndex]

playPrevSong ==
    IF Len(playQueue) = 0
    THEN NoRender(Event("playPrevSong", "empty"), TheAudio)
    ELSE IF PrevRestarts(audioCurrentTime)
    THEN NoRender(Event("playPrevSong", "restart"), Audio(audioSrc, 0, audioPaused))
    ELSE LET p == PrevStep(Len(playQueue), currentSongIndex, repeatMode)
         IN IF p.branch = "noop"
            THEN NoRender(Event("playPrevSong", "noop"), TheAudio)
            ELSE Render(Event("playPrevSong", p.branch),
                        IF p.index # currentSongIndex THEN "move" ELSE "other",
                        playQueue, FALSE, p.index, isPlaying, currentTime, TheAudio)

\* the Previous button
PlayPrevSong ==
    /\ playPrevSong
    /\ UNCHANGED <<songs, playlists, activeView, isLoading, shuffleMode,
                   repeatMode, dbVars>>

\* the seek bar: audio.currentTime = time; setCurrentTime(time)
HandleSeek ==
    /\ \E time \in Positions :
          Render(Event("handleSeek", "-"), "other", playQueue, FALSE,
                 currentSongIndex, isPlaying, time,
                 Audio(audioSrc, time, audioPaused))
    /\ UNCHANGED <<songs, playlists, activeView, isLoading, shuffleMode,
                   repeatMode, dbVars>>

\* mutant: the toggle alternates between the first two modes
NextMode_SkipsLast(modes, mode) ==
    IF mode = modes[1] THEN modes[2] ELSE modes[1]

\* modes[(modes.indexOf(mode) + 1) % modes.length]
NextMode(modes, mode) == modes[(ModeIndex(modes, mode) % Len(modes)) + 1]

\* mutant: the pointer keeps its old index in the rebuilt queue
RelocatedIndex_KeepsOldIndex(newQueue, currentSong) == currentSongIndex

\* newQueue.findIndex(s => s.id === currentSong.id)
RelocatedIndex(newQueue, currentSong) == FindIndex(newQueue, currentSong)

\* the findIndex callback reads s.id and currentSong.id: a TypeError when it
\* is invoked with currentSong undefined, or on an undefined element that
\* precedes the first match
FindIndexThrows(list, currentSong) ==
    /\ Len(list) > 0
    /\ \/ currentSong = None
       \/ \E i \in 1..Len(list) :
             list[i] = None /\ \A j \in 1..(i-1) : list[j] # currentSong

\* "original order of active view": the library, or the playlist's ids
\* mapped through songs.find (no filter, no search, no sort)
OriginalList ==
    IF activeView.type = "library" THEN songs
    ELSE IF activeView.id \in DOMAIN playlists
    THEN Resolve(playlists[activeView.id])
    ELSE <<>>

\* getShuffledQueue(playQueue) as toggleShuffle calls it: the function is
\* memoized on the shuffleMode of the render that created it, so it
\* shuffles by the mode in force before the toggle
ToggleQueues == getShuffledQueue(playQueue, shuffleMode)

toggleShuffle ==
    LET newMode == NextMode(ShuffleModes, shuffleMode)
        currentSong == ElementAt(playQueue, currentSongIndex)
    IN /\ shuffleMode' = newMode
       /\ IF Len(playQueue) = 0
          THEN NoRender(Event("toggleShuffle", "idle"), TheAudio)
          ELSE IF newMode # "none"
          THEN IF FindIndexThrows(playQueue, currentSong)
               THEN NoRender(Event("toggleShuffle", "threw"), TheAudio)
               ELSE \E newQueue \in ToggleQueues :
                       Render(Event("toggleShuffle", "shuffled"), "move",
                              newQueue, TRUE, RelocatedIndex(newQueue, currentSong),
                              isPlaying, currentTime, TheAudio)
          ELSE IF FindIndexThrows(OriginalList, currentSong)
               THEN NoRender(Event("toggleShuffle", "threw"), TheAudio)
               ELSE Render(Event("toggleShuffle", "restored"), "move",
                           OriginalList, TRUE,
                           RelocatedIndex(OriginalList, currentSong),
                           isPlaying, currentTime, TheAudio)

ToggleShuffle ==
    /\ toggleShuffle
    /\ UNCHANGED <<songs, playlists, activeView, isLoading, repeatMode, dbVars>>

ToggleRepeat ==
    /\ repeatMode' = NextMode(RepeatModes, repeatMode)
    /\ UNCHANGED <<songs, playlists, activeView, isLoading, shuffleMode, dbVars>>
    /\ NoRender(Event("toggleRepeat", "-"), TheAudio)

(***************************************************************************)
(* The media element and the clock.                                        *)
(***************************************************************************)
\* timeupdate: updateCurrentTime sets currentTime to audio.currentTime
updateCurrentTime ==
    /\ audioCurrentTime # currentTime
    /\ Render(Event("timeupdate", "-"), "other", playQueue, FALSE,
              currentSongIndex, isPlaying, audioCurrentTime, TheAudio)

UpdateCurrentTime ==
    /\ updateCurrentTime
    /\ UNCHANGED <<songs, playlists, activeView, isLoading, shuffleMode,
                   repeatMode, dbVars>>

\* mutant: the key is the identity alone, so it never expires with the clock
ClockAdvances_KeyWithoutTime == UNCHANGED trackedNow

\* Date.now() moves to a later millisecond: no key of the set carries it
ClockAdvances == trackedNow' = {}

\* the element plays on by a second (which takes a second of the clock)
Playback ==
    /\ audioSrc # None
    /\ ~audioPaused
    /\ audioCurrentTime < MaxPos
    /\ audioCurrentTime' = audioCurrentTime + 1
    /\ ClockAdvances
    /\ UNCHANGED <<reactVars, audioSrc, audioPaused, dbVars>>
    /\ Observe(Event("playback", "-"), "other", None)

\* time passes between two events
Tick ==
    /\ trackedNow # {}
    /\ ClockAdvances
    /\ UNCHANGED <<reactVars, audioVars, dbVars>>
    /\ Observe(Event("tick", "-"), "other", None)

\* the promise of a play() call rejects (the source cannot be loaded or
\* decoded): the catch handler logs the error and sets no state.  The
\* element does not play its source; audioPaused stands for "not playing".
\* Every play() of the component follows a load or a seek to 0, and the
\* rejection comes before the element has played anything.
PlayRejected ==
    /\ audioSrc # None
    /\ ~audioPaused
    /\ audioCurrentTime = 0
    /\ UNCHANGED <<songs, playlists, activeView, isLoading, shuffleMode,
                   repeatMode, dbVars>>
    /\ NoRender(Event("playRejected", "-"), Audio(audioSrc, audioCurrentTime, TRUE))

Next ==
    \/ LoadInitialData
    \/ SetActiveView
    \/ PlaySong
    \/ HandlePlayPause
    \/ PlayNextSong
    \/ HandleEnded
    \/ PlayPrevSong
    \/ HandleSeek
    \/ ToggleShuffle
    \/ ToggleRepeat
    \/ UpdateCurrentTime
    \/ Playback
    \/ Tick
    \/ PlayRejected

Spec == Init /\ [][Next]_vars

(***************************************************************************)
(* Library store (services/db).  A readwrite transaction on the "songs"    *)
(* object store excludes every other one on it until it completes, so the  *)
(* store runs one operation's transaction at a time.                       *)
(***************************************************************************)
\* number of songs in one addSongs batch
MaxBatch == 2
\* play counts in the store are explored up to MaxPlayCount
MaxPlayCount == 2

Titles == {"t1", "t2"}

\* IDBObjectStore.get(key)
Get(store, id) ==
    IF \E r \in store : r.id = id THEN CHOOSE r \in store : r.id = id ELSE NoSong

\* mutant: the record is added beside the one the key already has
Put_KeepsOldRecord(store, song) == store \cup {song}

\* IDBObjectStore.put(value) with keyPath "id": replaces the record of the key
Put(store, song) == {r \in store : r.id # song.id} \cup {song}

\* songs.map(song => tx.store.put(song)): the puts in the order of the batch
RECURSIVE PutAll(_, _)
PutAll(store, batch) ==
    IF batch = <<>> THEN store
    ELSE PutAll(Put(store, Head(batch)), Tail(batch))

\* the records a caller can submit: scanFiles builds them with playCount 0
Batches ==
    UNION {[1..n -> {SongRecord(id, t, 0) : id \in SongIds, t \in Titles}] :
              n \in 1..MaxBatch}

\* the last record of the batch with the identity, NoSong when none
RECURSIVE LastWithId(_, _)
LastWithId(batch, id) ==
    IF batch = <<>> THEN NoSong
    ELSE IF batch[Len(batch)].id = id THEN batch[Len(batch)]
    ELSE LastWithId(SubSeq(batch, 1, Len(batch) - 1), id)

\* addSongs(songs): one transaction, a put per song, await tx.done
addSongs(batch) ==
    /\ tx = NoTx
    /\ dbSongs' = PutAll(dbSongs, batch)
    /\ putRecord' = [id \in SongIds |->
                        IF LastWithId(batch, id) # NoSong
                        THEN LastWithId(batch, id) ELSE putRecord[id]]
    /\ incDone' = [id \in SongIds |->
                      IF LastWithId(batch, id) # NoSong THEN 0 ELSE incDone[id]]
    /\ overwritten' = overwritten \cup
          {id \in Keys(dbSongs) :
              LastWithId(batch, id) \notin {NoSong, Get(dbSongs, id)}}
    /\ UNCHANGED <<dbPlaylists, tx>>

AddSongs ==
    /\ \E batch \in Batches : addSongs(batch)
    /\ UNCHANGED <<scan, otherVars, reactVars, trackerVars, audioVars, obsVars>>

\* incrementPlayCount(songId) up to the get: the transaction is open and
\* holds the song it read
BeginIncrement ==
    /\ tx = NoTx
    /\ \E songId \in SongIds :
          /\ Get(dbSongs, songId).playCount < MaxPlayCount
          /\ tx' = [id |-> songId, song |-> Get(dbSongs, songId)]
    /\ UNCHANGED <<dbSongs, dbPlaylists, putRecord, incDone, overwritten, scan,
                   otherVars>>
    /\ UNCHANGED <<reactVars, trackerVars, audioVars, obsVars>>

\* mutant: song.playCount = 1
Incremented_SetsOne(song) == [song EXCEPT !.playCount = 1]

\* song.playCount += 1
Incremented(song) == [song EXCEPT !.playCount = @ + 1]

\* the rest of incrementPlayCount: if (song) put it back; await tx.done
FinishIncrement ==
    /\ tx # NoTx
    /\ dbSongs' = IF tx.song # NoSong THEN Put(dbSongs, Incremented(tx.song))
                  ELSE dbSongs
    /\ tx' = NoTx
    /\ incDone' = IF tx.song # NoSong
                  THEN [incDone EXCEPT ![tx.id] = @ + 1] ELSE incDone
    /\ UNCHANGED <<dbPlaylists, putRecord, overwritten, scan, otherVars>>
    /\ UNCHANGED <<reactVars, trackerVars, audioVars, obsVars>>

\* a database just created by the upgrade callback: both stores empty
InitStore ==
    /\ AppMounted
    /\ dbSongs = {}
    /\ dbPlaylists = <<>>
    /\ tx = NoTx
    /\ putRecord = [id \in SongIds |-> NoSong]
    /\ incDone = [id \in SongIds |-> 0]
    /\ overwritten = {}
    /\ scan = NoScan
    /\ built = NoBuild
    /\ dbPromise = "open"

NextStore ==
    \/ AddSongs
    \/ BeginIncrement
    \/ FinishIncrement

SpecStore == InitStore /\ [][NextStore]_vars

(***************************************************************************)
(* Library: the import (scanFiles), the initial load and the play-count    *)
(* write-back, over a store left by earlier sessions.  A file is           *)
(* represented by the identity scanFiles gives it,                         *)
(* `${file.name}-${file.lastModified}`; two files of a batch with the same *)
(* name and timestamp (copies in two folders) have the same identity.      *)
(***************************************************************************)
\* the file lists a folder selection can hand to scanFiles.  A file whose
\* extension is not supported or whose tags cannot be read is skipped, which
\* leaves the list without it.
FileLists == UNION {[1..n -> SongIds] : n \in 1..MaxBatch}

\* the loop of scanFiles: the files whose name is not in existingSongIds, in
\* order (a name that occurs twice in the list is kept twice)
NewSongs(files, existingSongIds) ==
    SelectSeq(files, LAMBDA f : f \notin existingSongIds)

\* the Song built for a file: playCount: 0
ScannedSong(id) == SongRecord(id, "t1", 0)

\* scanFiles up to the end of its loop.  existingSongIds is computed from
\* the songs of the render whose handler was called.
StartScan ==
    /\ scan = NoScan
    /\ \E files \in FileLists :
          LET newSongs == NewSongs(files, Range(songs))
          IN /\ scan' = IF Len(newSongs) > 0
                        THEN [stage |-> "scanned", newSongs |-> newSongs]
                        ELSE NoScan
             /\ Observe(Event("scanFiles",
                              IF Len(newSongs) > 0 THEN "scanned" ELSE "nothing"),
                        "other", None)
    /\ UNCHANGED <<reactVars, trackerVars, audioVars>>
    /\ UNCHANGED <<dbSongs, dbPlaylists, tx, putRecord, incDone, overwritten,
                   otherVars>>

\* await addSongs(newSongs)
ScanAddSongs ==
    /\ scan.stage = "scanned"
    /\ addSongs([i \in 1..Len(scan.newSongs) |-> ScannedSong(scan.newSongs[i])])
    /\ scan' = [scan EXCEPT !.stage = "stored"]
    /\ Observe(Event("scanFiles", "stored"), "other", None)
    /\ UNCHANGED <<otherVars, reactVars, trackerVars, audioVars>>

\* mutant: the import also rebuilds the queue from the library
ScanSetSongs_RebuildsQueue ==
    /\ scan.stage = "stored"
    /\ songs' = songs \o scan.newSongs
    /\ playQueue' = songs'
    /\ scan' = NoScan
    /\ Observe(Event("scanFiles", "done"), "other", None)
    /\ UNCHANGED <<playlists, activeView, isLoading, currentSongIndex,
                   isPlaying, currentTime, shuffleMode, repeatMode>>
    /\ UNCHANGED <<trackerVars, audioVars>>
    /\ UNCHANGED <<dbSongs, dbPlaylists, tx, putRecord, incDone, overwritten,
                   otherVars>>

\* setSongs(prev => [...prev, ...newSongs]); setIsScanning(false).  No
\* effect depends on songs.
ScanSetSongs ==
    /\ scan.stage = "stored"
    /\ songs' = songs \o scan.newSongs
    /\ scan' = NoScan
    /\ Observe(Event("scanFiles", "done"), "other", None)
    /\ UNCHANGED <<playlists, activeView, isLoading, currentSongIndex, playQueue,
                   isPlaying, currentTime, shuffleMode, repeatMode>>
    /\ UNCHANGED <<trackerVars, audioVars>>
    /\ UNCHANGED <<dbSongs, dbPlaylists, tx, putRecord, incDone, overwritten,
                   otherVars>>

\* incrementPlayCount(id).then(...): setSongs(prev => prev.map(...)) gives
\* the song a new snapshot with playCount + 1; the identities of the list
\* and their order are those of prev
IncrementResolved ==
    /\ \E id \in SongIds : incDone[id] > 0
    /\ songs' = [i \in 1..Len(songs) |-> songs[i]]
    /\ Observe(Event("incrementResolved", "-"), "other", None)
    /\ UNCHANGED <<playlists, activeView, isLoading, currentSongIndex, playQueue,
                   isPlaying, currentTime, shuffleMode, repeatMode>>
    /\ UNCHANGED <<trackerVars, audioVars, dbVars>>

\* the stores an earlier session can have left: any songs, each played up
\* to once
EarlierLibraries ==
    UNION {{{SongRecord(id, "t1", c[id]) : id \in S} : c \in [S -> 0..1]} :
              S \in SUBSET SongIds}

InitLibrary ==
    /\ AppMounted
    /\ dbSongs \in EarlierLibraries
    /\ dbPlaylists = <<>>
    /\ tx = NoTx
    /\ putRecord = [id \in SongIds |-> NoSong]
    /\ incDone = [id \in SongIds |-> 0]
    /\ overwritten = {}
    /\ scan = NoScan
    /\ built = NoBuild
    /\ dbPromise = "open"

\* the overlay shown while isScanning covers the controls
PlayPauseBetweenScans == scan = NoScan /\ HandlePlayPause

NextLibrary ==
    \/ LoadInitialData
    \/ PlayPauseBetweenScans
    \/ StartScan
    \/ ScanAddSongs
    \/ ScanSetSongs
    \/ BeginIncrement
    \/ FinishIncrement
    \/ IncrementResolved

SpecLibrary == InitLibrary /\ [][NextLibrary]_vars

(***************************************************************************)
(* The queue builder on its own: getShuffledQueue called with any list of  *)
(* identities (an identity may occur more than once) under any mode.       *)
(***************************************************************************)
\* longest list handed to the builder
MaxQueue == 4

SourceLists == UNION {[1..n -> SongIds] : n \in 0..MaxQueue}

\* mutant: the shuffle works on the caller's array
ShuffleCall_InPlace(sourceQueue, mode) ==
    {[queue |-> q, source |-> q] : q \in getShuffledQueue(sourceQueue, mode)}

\* a call of getShuffledQueue: const queue = [...sourceQueue] is a new
\* array, so the swaps and the sort leave the caller's array as it was
ShuffleCall(sourceQueue, mode) ==
    {[queue |-> q, source |-> sourceQueue] :
        q \in getShuffledQueue(sourceQueue, mode)}

BuildQueue ==
    /\ \E sourceQueue \in SourceLists : \E mode \in Range(ShuffleModes) :
          \E r \in ShuffleCall(sourceQueue, mode) :
             built' = [mode |-> mode, arg |-> sourceQueue,
                       source |-> r.source, queue |-> r.queue]
    /\ UNCHANGED <<dbSongs, dbPlaylists, tx, putRecord, incDone, overwritten, scan,
                   duration, adding, dbPromise, restVars>>
    /\ UNCHANGED <<reactVars, trackerVars, audioVars, obsVars>>

InitBuilder == InitStore

NextBuilder == BuildQueue

SpecBuilder == InitBuilder /\ [][NextBuilder]_vars

(***************************************************************************)
(* The seek bar.  The range input of PlayerControls offers the values      *)
(* 0..max with max = duration || 100, where duration is the React state    *)
(* last set by the loadedmetadata listener; its onChange hands the value   *)
(* to handleSeek.                                                          *)
(***************************************************************************)
SEEK_BAR_DEFAULT_MAX == 100

\* Song.duration: every track is at least MaxPos seconds long, and no two
\* tracks have the same length
SongDuration(id) ==
    MaxPos + (CHOOSE i \in 1..Len(IdNames) : IdNames[i] = id) - 1

\* max={duration || 100}
SeekBarMax == IF duration = 0 THEN SEEK_BAR_DEFAULT_MAX ELSE duration

\* the setter of audio.currentTime: the element moves to the end of its
\* source when asked for a later position; without a source it keeps the
\* value as its start position
ElementSeek(time) ==
    IF audioSrc = None \/ time <= SongDuration(audioSrc) THEN time
    ELSE SongDuration(audioSrc)

\* handleSeek(time): audio.currentTime = time; setCurrentTime(time)
handleSeek(time) ==
    Render(Event("handleSeek", "seekBar"), "other", playQueue, FALSE,
           currentSongIndex, isPlaying, time,
           Audio(audioSrc, ElementSeek(time), audioPaused))

\* a change of the range input
SeekBar ==
    /\ \E time \in 0..SeekBarMax : handleSeek(time)
    /\ UNCHANGED <<songs, playlists, activeView, isLoading, shuffleMode,
                   repeatMode, dbVars>>

\* loadedmetadata: updateDuration sets duration to audio.duration.  No
\* effect depends on duration.
UpdateDuration ==
    /\ audioSrc # None
    /\ duration # SongDuration(audioSrc)
    /\ duration' = SongDuration(audioSrc)
    /\ Observe(Event("loadedmetadata", "-"), "other", None)
    /\ UNCHANGED <<reactVars, trackerVars, audioVars, built, adding, dbPromise, restVars>>
    /\ UNCHANGED <<dbSongs, dbPlaylists, tx, putRecord, incDone, overwritten, scan>>

NextSeek ==
    \/ LoadInitialData
    \/ PlaySong
    \/ HandlePlayPause
    \/ PlayNextSong
    \/ UpdateDuration
    \/ SeekBar
    \/ UpdateCurrentTime

SpecSeek == Init /\ [][NextSeek]_vars

(***************************************************************************)
(* Playlists.  handleAddSongToPlaylist reads the playlists of the render   *)
(* whose modal was clicked, awaits updatePlaylist and then sets playlists  *)
(* from the same render's list.  The store completes the puts in the       *)
(* order of the calls.                                                     *)
(***************************************************************************)
\* handleAddSongToPlaylist calls that can wait at their await at a time
MaxPending == 2

\* mutant: the song is added whether or not the playlist holds it
CanAdd_Always(songIds, songId) == TRUE

\* !playlist.songIds.includes(songId)
CanAdd(songIds, songId) == songId \notin Range(songIds)

\* a click on a playlist of the modal, up to the await
AddSongToPlaylist ==
    /\ Len(adding) < MaxPending
    /\ \E playlistId \in DOMAIN playlists : \E songId \in Range(songs) :
          IF CanAdd(playlists[playlistId], songId)
          THEN /\ adding' = Append(adding,
                     [playlistId |-> playlistId,
                      songIds |-> Append(playlists[playlistId], songId),
                      playlists |-> playlists,
                      stage |-> "called"])
               /\ Observe(Event("handleAddSongToPlaylist", "called"), "other", None)
          ELSE /\ UNCHANGED adding
               /\ Observe(Event("handleAddSongToPlaylist", "present"), "other", None)
    /\ UNCHANGED <<reactVars, trackerVars, audioVars, built, duration, dbPromise, restVars>>
    /\ UNCHANGED <<dbSongs, dbPlaylists, tx, putRecord, incDone, overwritten, scan>>

\* updatePlaylist: db.put(PLAYLISTS_STORE, playlist) of the oldest call that
\* has not written yet
UpdatePlaylist ==
    /\ \E i \in 1..Len(adding) :
          /\ adding[i].stage = "called"
          /\ \A j \in 1..(i-1) : adding[j].stage \in {"stored", "created"}
          /\ dbPlaylists' = [dbPlaylists EXCEPT
                                ![adding[i].playlistId] = adding[i].songIds]
          /\ adding' = [adding EXCEPT ![i].stage = "stored"]
    /\ Observe(Event("updatePlaylist", "-"), "other", None)
    /\ UNCHANGED <<reactVars, trackerVars, audioVars, built, duration, dbPromise, restVars>>
    /\ UNCHANGED <<dbSongs, tx, putRecord, incDone, overwritten, scan>>

\* after the await: setPlaylists(playlists.map(p => p.id === playlistId ?
\* updatedPlaylist : p)).  No effect depends on playlists.
AddSongResumes ==
    /\ Len(adding) > 0
    /\ adding[1].stage = "stored"
    /\ playlists' = [adding[1].playlists EXCEPT
                        ![adding[1].playlistId] = adding[1].songIds]
    /\ adding' = Tail(adding)
    /\ Observe(Event("handleAddSongToPlaylist", "done"), "other", None)
    /\ UNCHANGED <<songs, activeView, isLoading, currentSongIndex, playQueue,
                   isPlaying, currentTime, shuffleMode, repeatMode>>
    /\ UNCHANGED <<trackerVars, audioVars, built, duration, dbPromise, restVars>>
    /\ UNCHANGED <<dbSongs, dbPlaylists, tx, putRecord, incDone, overwritten, scan>>

\* the playlists of the store were created by handleCreatePlaylist: empty
InitPlaylists ==
    /\ AppMounted
    /\ dbSongs \in StoredLibraries
    /\ dbPlaylists = [p \in PlaylistIds |-> <<>>]
    /\ tx = NoTx
    /\ putRecord = [id \in SongIds |-> NoSong]
    /\ incDone = [id \in SongIds |-> 0]
    /\ overwritten = {}
    /\ scan = NoScan
    /\ built = NoBuild
    /\ dbPromise = "open"

NextPlaylists ==
    \/ LoadInitialData
    \/ AddSongToPlaylist
    \/ UpdatePlaylist
    \/ AddSongResumes

SpecPlaylists == InitPlaylists /\ [][NextPlaylists]_vars

(***************************************************************************)
(* A store whose playlists name songs that the songs store does not hold.  *)
(* The program has no operation that removes a song; such a store is what  *)
(* the playlist view's filter (s): s is Song => !!s is written for.        *)
(***************************************************************************)
\* the songs store holds some of the identities, not all
PartialLibraries ==
    {{SongRecord(id, "t1", 0) : id \in S} :
        S \in (SUBSET SongIds) \ {{}, SongIds}}

\* a playlist names any identities, each at most once, in any order
AnyPlaylists == UNION {Arrangements(S) : S \in SUBSET SongIds}

InitDangling ==
    /\ AppMounted
    /\ dbSongs \in PartialLibraries
    /\ dbPlaylists \in [PlaylistIds -> AnyPlaylists]
    /\ tx = NoTx
    /\ putRecord = [id \in SongIds |-> NoSong]
    /\ incDone = [id \in SongIds |-> 0]
    /\ overwritten = {}
    /\ scan = NoScan
    /\ built = NoBuild
    /\ dbPromise = "open"

NextDangling ==
    \/ LoadInitialData
    \/ SetActiveView
    \/ PlaySong
    \/ PlayNextSong
    \/ ToggleShuffle

SpecDangling == InitDangling /\ [][NextDangling]_vars

(***************************************************************************)
(* scanFiles with the outcome of the tag reader.  A file is its name       *)
(* without the extension (the identity of the model), its extension and    *)
(* what jsmediatags.read does with it: onError, or onSuccess with tags in  *)
(* which title, artist and album are each absent, empty or present.        *)
(***************************************************************************)
SUPPORTED_FORMATS == {"mp3", "m4a", "wav", "flac", "aac"}

\* the outcome onError of jsmediatags.read
TagsUnreadable == [title |-> "ERROR", artist |-> "ERROR", album |-> "ERROR"]

\* a tag field is absent, empty or present
TagValues == {None, "", "t1"}
TagOutcomes ==
    {TagsUnreadable} \cup [title : TagValues, artist : {None, "t1"},
                           album : {None, "t1"}]

TaggedFiles == [name : SongIds, extension : {"mp3", "txt"}, tags : TagOutcomes]
TaggedFileLists == UNION {[1..n -> TaggedFiles] : n \in 1..MaxBatch}

\* a || b on strings: undefined and "" are falsy
OrElse(a, b) == IF a \in {None, ""} THEN b ELSE a

\* the Song literal of scanFiles; file.name.replace(/\.[^/.]+$/, "") is the
\* name without the extension
TaggedSong(file) ==
    [id |-> file.name,
     title |-> OrElse(file.tags.title, file.name),
     artist |-> OrElse(file.tags.artist, "Unknown Artist"),
     album |-> OrElse(file.tags.album, "Unknown Album"),
     playCount |-> 0]

\* the loop of scanFiles.  continue on an unsupported extension or a known
\* file name; a rejected tag read lands in the catch block, which logs a
\* warning and pushes nothing.
RECURSIVE ScanLoop(_, _)
ScanLoop(files, existingSongIds) ==
    IF files = <<>> THEN <<>>
    ELSE LET file == Head(files)
             rest == ScanLoop(Tail(files), existingSongIds)
         IN IF \/ file.extension \notin SUPPORTED_FORMATS
               \/ file.name \in existingSongIds
            THEN rest
            ELSE IF file.tags = TagsUnreadable THEN rest
            ELSE <<TaggedSong(file)>> \o rest

\* scanFiles up to the end of its loop
ScanTaggedFiles ==
    /\ scan = NoScan
    /\ \E files \in TaggedFileLists :
          LET records == ScanLoop(files, Range(songs))
          IN /\ scan' = [stage |-> IF Len(records) > 0 THEN "scanned" ELSE "empty",
                         newSongs |-> [i \in 1..Len(records) |-> records[i].id],
                         records |-> records,
                         files |-> files]
             /\ Observe(Event("scanFiles",
                              IF Len(records) > 0 THEN "scanned" ELSE "nothing"),
                        "other", None)
    /\ UNCHANGED <<reactVars, trackerVars, audioVars>>
    /\ UNCHANGED <<dbSongs, dbPlaylists, tx, putRecord, incDone, overwritten,
                   otherVars>>

\* await addSongs(newSongs)
ScanTaggedAddSongs ==
    /\ scan.stage = "scanned"
    /\ addSongs([i \in 1..Len(scan.records) |->
                    SongRecord(scan.records[i].id, scan.records[i].title,
                               scan.records[i].playCount)])
    /\ scan' = [scan EXCEPT !.stage = "stored"]
    /\ Observe(Event("scanFiles", "stored"), "other", None)
    /\ UNCHANGED <<otherVars, reactVars, trackerVars, audioVars>>

\* newSongs.length is 0: setIsScanning(false)
ScanFoundNothing ==
    /\ scan.stage = "empty"
    /\ scan' = NoScan
    /\ Observe(Event("scanFiles", "done"), "other", None)
    /\ UNCHANGED <<reactVars, trackerVars, audioVars>>
    /\ UNCHANGED <<dbSongs, dbPlaylists, tx, putRecord, incDone, overwritten,
                   otherVars>>

NextTags ==
    \/ ScanTaggedFiles
    \/ ScanTaggedAddSongs
    \/ ScanSetSongs
    \/ ScanFoundNothing

SpecTags == InitStore /\ [][NextTags]_vars

(***************************************************************************)
(* Store failures.  getDb keeps the promise of its one openDB call, so a   *)
(* failed open rejects every later operation; a transaction that cannot    *)
(* commit aborts, which undoes its put and rejects incrementPlayCount.     *)
(* The caller is incrementPlayCount(id).then(...) with no catch.           *)
(***************************************************************************)
\* mutant: the put of an aborted transaction stays in the store
SettleOutcomes_AbortKeepsPut ==
    {[branch |-> b,
      store |-> IF tx.song # NoSong THEN Put(dbSongs, Incremented(tx.song))
                ELSE dbSongs,
      done |-> IF tx.song # NoSong THEN [incDone EXCEPT ![tx.id] = @ + 1]
               ELSE incDone] : b \in {"fulfilled", "rejected"}}

\* the ways the open transaction of incrementPlayCount can end: it commits
\* (tx.done resolves) or it aborts (put or tx.done rejects, the store is as
\* before the transaction)
SettleOutcomes ==
    {[branch |-> "fulfilled",
      store |-> IF tx.song # NoSong THEN Put(dbSongs, Incremented(tx.song))
                ELSE dbSongs,
      done |-> IF tx.song # NoSong THEN [incDone EXCEPT ![tx.id] = @ + 1]
               ELSE incDone],
     [branch |-> "rejected", store |-> dbSongs, done |-> incDone]}

\* openDB resolves
DbOpens ==
    /\ dbPromise = "pending"
    /\ dbPromise' = "open"
    /\ Observe(Event("getDb", "opened"), "other", None)
    /\ UNCHANGED <<reactVars, trackerVars, audioVars, built, duration, adding, restVars>>
    /\ UNCHANGED <<dbSongs, dbPlaylists, tx, putRecord, incDone, overwritten, scan>>

\* openDB rejects: dbPromise stays the rejected promise
DbOpenFails ==
    /\ dbPromise = "pending"
    /\ dbPromise' = "failed"
    /\ Observe(Event("getDb", "failed"), "other", None)
    /\ UNCHANGED <<reactVars, trackerVars, audioVars, built, duration, adding, restVars>>
    /\ UNCHANGED <<dbSongs, dbPlaylists, tx, putRecord, incDone, overwritten, scan>>

\* incrementPlayCount(songId) once getDb has settled: await getDb() throws,
\* or the transaction opens and reads the song
IncrementCalled ==
    /\ dbPromise # "pending"
    /\ tx = NoTx
    /\ \E songId \in SongIds :
          /\ Get(dbSongs, songId).playCount < MaxPlayCount
          /\ IF dbPromise = "failed"
             THEN /\ UNCHANGED tx
                  /\ Observe(Event("incrementPlayCount", "rejected"), "other", None)
             ELSE /\ tx' = [id |-> songId, song |-> Get(dbSongs, songId)]
                  /\ Observe(Event("incrementPlayCount", "called"), "other", None)
    /\ UNCHANGED <<reactVars, trackerVars, audioVars, otherVars>>
    /\ UNCHANGED <<dbSongs, dbPlaylists, putRecord, incDone, overwritten, scan>>

\* the transaction of incrementPlayCount ends
IncrementSettles ==
    /\ tx # NoTx
    /\ \E o \in SettleOutcomes :
          /\ dbSongs' = o.store
          /\ incDone' = o.done
          /\ Observe(Event("incrementPlayCount", o.branch), "other", None)
    /\ tx' = NoTx
    /\ UNCHANGED <<reactVars, trackerVars, audioVars, otherVars>>
    /\ UNCHANGED <<dbPlaylists, putRecord, overwritten, scan>>

InitFailure ==
    /\ AppMounted
    /\ dbSongs \in EarlierLibraries
    /\ dbPlaylists = <<>>
    /\ tx = NoTx
    /\ putRecord = [id \in SongIds |-> NoSong]
    /\ incDone = [id \in SongIds |-> 0]
    /\ overwritten = {}
    /\ scan = NoScan
    /\ built = NoBuild
    /\ dbPromise = "pending"

NextFailure ==
    \/ DbOpens
    \/ DbOpenFails
    \/ IncrementCalled
    \/ IncrementSettles
    \/ IncrementResolved

SpecFailure == InitFailure /\ [][NextFailure]_vars

(***************************************************************************)
(* The song list as the header shows it: the search filter and the sort   *)
(* of filteredAndSortedSongs, and the rows that hand that list to          *)
(* playSong.  A text is a sequence of letters.  The title of a song in     *)
(* memory is the title of its stored record: loadInitialData copies the    *)
(* records and nothing changes a title.                                    *)
(***************************************************************************)
\* useState({ key: 'title', direction: 'asc' }); setSortOption is never
\* called, so the list is always sorted by title
sortOption == [key |-> "title", direction |-> "asc"]

\* the letters of the texts of the model
Letters(text) ==
    CASE text = "" -> <<>>
      [] text = "t1" -> <<"t", "1">>
      [] text = "t2" -> <<"t", "2">>
      [] text = "Unknown Artist" ->
            <<"U", "n", "k", "n", "o", "w", "n", " ",
              "A", "r", "t", "i", "s", "t">>
      [] text = "Unknown Album" ->
            <<"U", "n", "k", "n", "o", "w", "n", " ", "A", "l", "b", "u", "m">>
      [] OTHER -> <<text>>

\* String.prototype.toLowerCase
LowerCase(c) ==
    CASE c = "A" -> "a" [] c = "T" -> "t" [] c = "U" -> "u" [] OTHER -> c
ToLowerCase(s) == [i \in 1..Len(s) |-> LowerCase(s[i])]

\* String.prototype.includes: q occurs in s as a run of letters
Includes(s, q) ==
    \E i \in 0..(Len(s) - Len(q)) : SubSeq(s, i + 1, i + Len(q)) = q

\* the order of the letters under localeCompare
Collation == <<" ", "1", "2", "a", "A", "b", "B", "t", "T", "u", "U">>
LetterRank(c) == FindIndex(Collation, c)

\* String.prototype.localeCompare: negative, 0 or positive
RECURSIVE LocaleCompare(_, _)
LocaleCompare(a, b) ==
    IF a = <<>> /\ b = <<>> THEN 0
    ELSE IF a = <<>> THEN -1
    ELSE IF b = <<>> THEN 1
    ELSE IF Head(a) = Head(b) THEN LocaleCompare(Tail(a), Tail(b))
    ELSE IF LetterRank(Head(a)) < LetterRank(Head(b)) THEN -1 ELSE 1

Title(id) == Get(dbSongs, id).title
\* scanFiles stores 'Unknown Artist' and 'Unknown Album' for a file without
\* these tags, as the files of the stored libraries are
SearchedTexts(id) == {Title(id), "Unknown Artist", "Unknown Album"}

\* the predicate of items.filter: the query occurs in the title, the artist
\* or the album, letter case apart
QueryMatches(id) ==
    \E text \in SearchedTexts(id) :
        Includes(ToLowerCase(Letters(text)), ToLowerCase(searchQuery))

\* the comparator of the sort
SortCompare(a, b) ==
    LET compare == LocaleCompare(Letters(Title(a)), Letters(Title(b)))
    IN IF sortOption.direction = "asc" THEN compare ELSE -compare

\* [...items].sort(compare): the sort is stable
RECURSIVE Sort(_)
Sort(items) ==
    IF items = <<>> THEN <<>>
    ELSE LET k == CHOOSE i \in 1..Len(items) :
                     /\ \A j \in 1..Len(items) : SortCompare(items[j], items[i]) >= 0
                     /\ \A j \in 1..(i-1) : SortCompare(items[j], items[i]) > 0
         IN <<items[k]>> \o
            Sort([i \in 1..(Len(items) - 1) |->
                     IF i < k THEN items[i] ELSE items[i + 1]])

filteredAndSortedSongs ==
    Sort(IF searchQuery # <<>>
         THEN SelectSeq(ViewItems, QueryMatches)
         ELSE ViewItems)

\* what the user types into the search box
SearchQueries == {<<>>, <<"2">>, <<"T">>, <<"x">>}

\* onChange of the search box: setSearchQuery(e.target.value)
SetSearchQuery ==
    /\ \E q \in SearchQueries \ {searchQuery} : searchQuery' = q
    /\ UNCHANGED <<songs, playlists, activeView, isLoading, shuffleMode,
                   repeatMode, dbSongs, dbPlaylists, tx, putRecord, incDone,
                   overwritten, scan, built, duration, adding, dbPromise,
                   supplied, incrementing, laterVars>>
    /\ NoRender(Event("setSearchQuery", "-"), TheAudio)

\* a row of the song list as rendered: playSong(song, filteredAndSortedSongs)
PlayListedSong ==
    /\ ~isLoading
    /\ \E song \in Range(filteredAndSortedSongs) :
          playSong("playSong", song, filteredAndSortedSongs)
    /\ supplied' = filteredAndSortedSongs
    /\ UNCHANGED <<songs, playlists, activeView, isLoading, shuffleMode,
                   repeatMode, dbSongs, dbPlaylists, tx, putRecord, incDone,
                   overwritten, scan, built, duration, adding, dbPromise,
                   searchQuery, incrementing, laterVars>>

\* the stored library with every choice of titles
TitledLibraries ==
    {{SongRecord(id, title[id], 0) : id \in SongIds} : title \in [SongIds -> Titles]}

InitView ==
    /\ AppMounted
    /\ dbSongs \in TitledLibraries
    /\ dbPlaylists \in [PlaylistIds -> StoredPlaylists(Keys(dbSongs))]
    /\ tx = NoTx
    /\ putRecord = [id \in SongIds |-> NoSong]
    /\ incDone = [id \in SongIds |-> 0]
    /\ overwritten = {}
    /\ scan = NoScan
    /\ built = NoBuild
    /\ dbPromise = "open"

NextView ==
    \/ LoadInitialData
    \/ SetActiveView
    \/ SetSearchQuery
    \/ PlayListedSong
    \/ ToggleShuffle

SpecView == InitView /\ [][NextView]_vars

(***************************************************************************)
(* The player with the store calls of its play-count effect in flight.    *)
(* incrementPlayCount is asynchronous: the effect issues the call and      *)
(* returns, and the call settles in a later task.  The readwrite           *)
(* transactions on the songs store run one after another in the order of   *)
(* their creation, so the calls settle oldest first.                       *)
(***************************************************************************)
\* incrementPlayCount(currentSong.id) of the play-count effect: the call the
\* step issues joins the calls in flight
CallIssued ==
    IF lastCall'.id # None
    THEN /\ Len(incrementing) < MaxPending
         /\ Get(dbSongs, lastCall'.id).playCount + Len(incrementing) < MaxPlayCount
         /\ incrementing' = Append(incrementing, lastCall'.id)
    ELSE UNCHANGED incrementing

CallsFrame ==
    UNCHANGED <<songs, playlists, activeView, isLoading, shuffleMode,
                repeatMode, dbSongs, dbPlaylists, tx, putRecord, incDone,
                overwritten, scan, built, duration, adding, dbPromise,
                viewVars, laterVars>>

\* a row of the library list shown in load order
PlaySongCalls ==
    /\ ~isLoading
    /\ \E song \in Range(songs) : playSong("playSong", song, songs)
    /\ CallIssued
    /\ CallsFrame

HandlePlayPauseCalls == handlePlayPause /\ CallIssued /\ CallsFrame

PlayNextSongCalls == playNextSong("playNextSong") /\ CallIssued /\ CallsFrame

UpdateCurrentTimeCalls == updateCurrentTime /\ CallIssued /\ CallsFrame

\* the oldest call settles: its transaction has put the song back with
\* playCount + 1, and .then(() => setSongs(prev => prev.map(...))) gives the
\* song of the library a new snapshot
IncrementCompletes ==
    /\ incrementing # <<>>
    /\ LET songId == Head(incrementing)
           song == Get(dbSongs, songId)
       IN /\ dbSongs' = IF song # NoSong THEN Put(dbSongs, Incremented(song))
                        ELSE dbSongs
          /\ incDone' = IF song # NoSong
                        THEN [incDone EXCEPT ![songId] = @ + 1] ELSE incDone
    /\ incrementing' = Tail(incrementing)
    /\ songs' = [i \in 1..Len(songs) |-> songs[i]]
    /\ Observe(Event("incrementPlayCount", "resolved"), "other", None)
    /\ UNCHANGED <<playlists, activeView, isLoading, currentSongIndex, playQueue,
                   isPlaying, currentTime, shuffleMode, repeatMode>>
    /\ UNCHANGED <<trackerVars, audioVars, dbPlaylists, tx, putRecord,
                   overwritten, scan, built, duration, adding, dbPromise,
                   viewVars, laterVars>>

NextCalls ==
    \/ LoadInitialData
    \/ PlaySongCalls
    \/ HandlePlayPauseCalls
    \/ PlayNextSongCalls
    \/ UpdateCurrentTimeCalls
    \/ Playback
    \/ IncrementCompletes

SpecCalls == Init /\ [][NextCalls]_vars

(***************************************************************************)
(* The weights of the weighted shuffle, on their own: the comparator of    *)
(* getShuffledQueue computes a weight for each of the two songs it is      *)
(* handed.  A source is given by the play counts of its songs.             *)
(***************************************************************************)
\* queue.reduce((sum, song) => sum + song.playCount, 0)
RECURSIVE Reduce(_, _)
Reduce(playCounts, sum) ==
    IF playCounts = <<>> THEN sum
    ELSE Reduce(Tail(playCounts), sum + Head(playCounts))

\* x || 1 on a number: 0 is falsy
OrOne(x) == IF x = 0 THEN 1 ELSE x

\* mutant: the weight is the difference alone
Weight_WithoutDefault(totalPlayCount, playCount) == totalPlayCount - playCount

\* (totalPlayCount - song.playCount) || 1
Weight(totalPlayCount, playCount) == OrOne(totalPlayCount - playCount)

\* the play counts of the sources: one to MaxQueue songs, each played up to
\* MaxPlayCount times
PlayCountLists == UNION {[1..n -> 0..MaxPlayCount] : n \in 1..MaxQueue}

\* the weights the comparator computes over a source
WeighSource ==
    /\ \E playCounts \in PlayCountLists :
          LET totalPlayCount == Reduce(playCounts, 0)
          IN weighed' = [playCounts |-> playCounts,
                         weights |-> [i \in 1..Len(playCounts) |->
                                         Weight(totalPlayCount, playCounts[i])]]
    /\ UNCHANGED <<reactVars, trackerVars, audioVars, obsVars>>
    /\ UNCHANGED <<dbSongs, dbPlaylists, tx, putRecord, incDone, overwritten,
                   scan, built, duration, adding, dbPromise, viewVars,
                   incrementing, workerVars>>

NextWeights == WeighSource

SpecWeights == InitStore /\ [][NextWeights]_vars

(***************************************************************************)
(* Playlist operations that overlap: handleCreatePlaylist beside           *)
(* handleAddSongToPlaylist.  Both await one request on the playlists       *)
(* store and then call setPlaylists with the playlists of the render that  *)
(* created the handler.  The requests are served in the order of the       *)
(* calls.  A call of handleCreatePlaylist waits in `adding` with stage     *)
(* "creating" (db.add not served) or "created" (served: playlistId is the  *)
(* key the store generated).                                               *)
(***************************************************************************)
\* the playlists the store can come to hold
MaxPlaylists == NumPlaylists + 1

\* prompt("Enter new playlist name:") returns a name: up to the await
CreatePlaylist ==
    /\ Len(adding) < MaxPending
    /\ Len(dbPlaylists)
         + Cardinality({i \in 1..Len(adding) : adding[i].stage = "creating"})
         < MaxPlaylists
    /\ adding' = Append(adding, [playlistId |-> 0,
                                 songIds |-> <<>>,
                                 playlists |-> playlists,
                                 stage |-> "creating"])
    /\ Observe(Event("handleCreatePlaylist", "called"), "other", None)
    /\ UNCHANGED <<reactVars, trackerVars, audioVars, built, duration, dbPromise, restVars>>
    /\ UNCHANGED <<dbSongs, dbPlaylists, tx, putRecord, incDone, overwritten, scan>>

\* addPlaylist: db.add(PLAYLISTS_STORE, newPlaylist) of the oldest call that
\* has not written yet; the key generator gives the next id
AddPlaylist ==
    /\ \E i \in 1..Len(adding) :
          /\ adding[i].stage = "creating"
          /\ \A j \in 1..(i-1) : adding[j].stage \in {"stored", "created"}
          /\ dbPlaylists' = Append(dbPlaylists, <<>>)
          /\ adding' = [adding EXCEPT ![i].stage = "created",
                                      ![i].playlistId = Len(dbPlaylists) + 1]
    /\ Observe(Event("addPlaylist", "-"), "other", None)
    /\ UNCHANGED <<reactVars, trackerVars, audioVars, built, duration, dbPromise, restVars>>
    /\ UNCHANGED <<dbSongs, tx, putRecord, incDone, overwritten, scan>>

\* [...playlists, newPlaylist] as a map from playlist id to song ids
WithPlaylist(list, newId) ==
    [p \in DOMAIN list \cup {newId} |-> IF p = newId THEN <<>> ELSE list[p]]

\* after the await: setPlaylists([...playlists, newPlaylist])
CreatePlaylistResumes ==
    /\ Len(adding) > 0
    /\ adding[1].stage = "created"
    /\ playlists' = WithPlaylist(adding[1].playlists, adding[1].playlistId)
    /\ adding' = Tail(adding)
    /\ Observe(Event("handleCreatePlaylist", "done"), "other", None)
    /\ UNCHANGED <<songs, activeView, isLoading, currentSongIndex, playQueue,
                   isPlaying, currentTime, shuffleMode, repeatMode>>
    /\ UNCHANGED <<trackerVars, audioVars, built, duration, dbPromise, restVars>>
    /\ UNCHANGED <<dbSongs, dbPlaylists, tx, putRecord, incDone, overwritten, scan>>

NextOverlap ==
    \/ LoadInitialData
    \/ CreatePlaylist
    \/ AddPlaylist
    \/ CreatePlaylistResumes
    \/ AddSongToPlaylist
    \/ UpdatePlaylist
    \/ AddSongResumes

SpecOverlap == InitPlaylists /\ [][NextOverlap]_vars

(***************************************************************************)
(* The import with a store that can fail.  isScanning is true from the     *)
(* call of scanFiles (scan # NoScan) until setIsScanning(false) at its     *)
(* end.  await addSongs(newSongs) is not inside a try block: when addSongs *)
(* rejects (getDb rejects, or the transaction aborts and the store is as   *)
(* before), scanFiles throws at the await and runs no further.             *)
(***************************************************************************)
\* await addSongs(newSongs) resolves
ImportStores ==
    /\ dbPromise = "open"
    /\ ScanTaggedAddSongs

\* await addSongs(newSongs) throws
ImportRejected ==
    /\ scan.stage = "scanned"
    /\ dbPromise # "pending"
    /\ scan' = [scan EXCEPT !.stage = "rejected"]
    /\ Observe(Event("scanFiles", "rejected"), "other", None)
    /\ UNCHANGED <<reactVars, trackerVars, audioVars>>
    /\ UNCHANGED <<dbSongs, dbPlaylists, tx, putRecord, incDone, overwritten,
                   otherVars>>

\* the database is being opened when the first folder is selected
InitImport ==
    /\ AppMounted
    /\ dbSongs = {}
    /\ dbPlaylists = <<>>
    /\ tx = NoTx
    /\ putRecord = [id \in SongIds |-> NoSong]
    /\ incDone = [id \in SongIds |-> 0]
    /\ overwritten = {}
    /\ scan = NoScan
    /\ built = NoBuild
    /\ dbPromise = "pending"

\* the store settles the write of the batch one way or the other
ImportSettles == ImportStores \/ ImportRejected

NextImport ==
    \/ DbOpens
    \/ DbOpenFails
    \/ ScanTaggedFiles
    \/ ImportStores
    \/ ImportRejected
    \/ ScanSetSongs
    \/ ScanFoundNothing

SpecImport == InitImport /\ [][NextImport]_vars

\* every promise scanFiles awaits settles, and the code after an await that
\* resolved runs: openDB settles, the write of the batch settles, and the
\* steps after the loop and after the write are taken
SpecImportFair ==
    /\ SpecImport
    /\ WF_vars(DbOpens \/ DbOpenFails)
    /\ WF_vars(ImportSettles)
    /\ WF_vars(ScanSetSongs)
    /\ WF_vars(ScanFoundNothing)

(***************************************************************************)
(* The service worker: install, then activate.  caches is the CacheStorage *)
(* of the origin.  The worker's fetch handler runs only once the promise   *)
(* handed to event.waitUntil by the activate handler has settled, and the  *)
(* page does not use the Cache API, so nothing else touches the caches     *)
(* while the activate handler runs.                                        *)
(***************************************************************************)
CACHE_NAME == "offline-music-player-v3"
cacheWhitelist == <<CACHE_NAME>>

\* the caches earlier versions of the worker or other scripts of the origin
\* can have left
CacheNames ==
    {CACHE_NAME, "offline-music-player-v1", "offline-music-player-v2", "other"}

\* mutant: every cache is taken for an old one
IsOldCache_Every(cacheName) == TRUE

\* cacheWhitelist.indexOf(cacheName) === -1
IsOldCache(cacheName) == FindIndex(cacheWhitelist, cacheName) = -1

WorkerFrame ==
    /\ UNCHANGED <<reactVars, trackerVars, audioVars, obsVars>>
    /\ UNCHANGED <<dbSongs, dbPlaylists, tx, putRecord, incDone, overwritten,
                   scan, built, duration, adding, dbPromise, viewVars,
                   incrementing, weighed>>

\* install: caches.open(CACHE_NAME) creates the cache, or rejects and the
\* catch logs the error
Install ==
    /\ activation.stage = "none"
    /\ \/ caches' = caches \cup {CACHE_NAME}
       \/ UNCHANGED caches
    /\ activation' = [activation EXCEPT !.stage = "installed"]
    /\ WorkerFrame

\* activate is dispatched: the handler asks for caches.keys()
Activate ==
    /\ activation.stage = "installed"
    /\ activation' = [activation EXCEPT !.stage = "listing", !.before = caches]
    /\ UNCHANGED caches
    /\ WorkerFrame

\* caches.keys() resolves: cacheNames.map asks caches.delete for every name
\* that is not in the whitelist
KeysResolve ==
    /\ activation.stage = "listing"
    /\ \E cacheNames \in Arrangements(caches) :
          activation' = [activation EXCEPT
                            !.stage = "deleting",
                            !.cacheNames = cacheNames,
                            !.deleting = {cacheName \in Range(cacheNames) :
                                             IsOldCache(cacheName)}]
    /\ UNCHANGED caches
    /\ WorkerFrame

\* one caches.delete(cacheName) is carried out
DeleteSettles ==
    /\ activation.stage = "deleting"
    /\ \E cacheName \in activation.deleting :
          /\ caches' = caches \ {cacheName}
          /\ activation' = [activation EXCEPT
                               !.deleting = @ \ {cacheName},
                               !.deleted = @ \cup {cacheName}]
    /\ WorkerFrame

\* Promise.all resolves, and with it the promise of waitUntil: the handler
\* has completed
ActivateCompletes ==
    /\ activation.stage = "deleting"
    /\ activation.deleting = {}
    /\ activation' = [activation EXCEPT !.stage = "done"]
    /\ UNCHANGED caches
    /\ WorkerFrame

\* fetch of a request that is not cached: caches.open(CACHE_NAME) creates
\* the cache when it is not there
FetchOpensCache ==
    /\ activation.stage = "done"
    /\ CACHE_NAME \notin caches
    /\ caches' = caches \cup {CACHE_NAME}
    /\ UNCHANGED activation
    /\ WorkerFrame

InitWorker ==
    /\ ComponentMounted
    /\ dbSongs = {}
    /\ dbPlaylists = <<>>
    /\ tx = NoTx
    /\ putRecord = [id \in SongIds |-> NoSong]
    /\ incDone = [id \in SongIds |-> 0]
    /\ overwritten = {}
    /\ scan = NoScan
    /\ built = NoBuild
    /\ dbPromise = "open"
    /\ caches \in SUBSET CacheNames
    /\ activation = NotActivated

NextWorker ==
    \/ Install
    \/ Activate
    \/ KeysResolve
    \/ DeleteSettles
    \/ ActivateCompletes
    \/ FetchOpensCache

SpecWorker == InitWorker /\ [][NextWorker]_vars

(***************************************************************************)
(* Claims.                                                                 *)
(***************************************************************************)
CurrentSong == ElementAt(playQueue, currentSongIndex)

\* C1: within one continuous play-session (counted, and playing without
\* pause, stop, pointer change or queue rebuild since), a position update
\* issues no further incrementPlayCount.
C1_OncePerSession ==
    (lastEvent.op = "timeupdate" /\ lastCall.id # None) => lastCall.phase # "counted"

\* C2: once the current track is counted, a pause and a resume (no pointer
\* change, no stop) do not let a later position update issue
\* incrementPlayCount again.
C2_NoRecountAfterResume ==
    (lastEvent.op = "timeupdate" /\ lastCall.id # None) => lastCall.phase # "resumed"

\* C3: when the session of the current track has ended (by a stop at the end
\* of the queue, or by the pointer having moved) and the track is replayed,
\* the position update that crosses 5 seconds while playing issues
\* incrementPlayCount for it.
C3_RecountAfterSessionEnd ==
    [][(/\ lastEvent'.op = "timeupdate"
        /\ isPlaying
        /\ CurrentSong # None
        /\ phase \in {"fresh", "ended"}
        /\ currentTime < PLAY_COUNT_THRESHOLD_S
        /\ currentTime' >= PLAY_COUNT_THRESHOLD_S)
       => lastCall'.id = CurrentSong]_vars

\* C3 witness: a track that was counted and then stopped at the end of the
\* queue is counted again by the position update of its replay
C3_Witness ==
    /\ lastEvent.op = "timeupdate"
    /\ lastCall.id # None
    /\ lastCall.phase = "ended"
    /\ lastCall.id = CurrentSong

\* C4: when toggleShuffle rebuilds the queue while a track is current and
\* the rebuilt queue holds that track's identity, the pointer designates
\* the same identity afterwards, for each of the three mode transitions.
C4_ShuffleKeepsCurrentSong ==
    [][(/\ lastEvent'.op = "toggleShuffle"
        /\ lastEvent'.branch \in {"shuffled", "restored"}
        /\ CurrentSong # None
        /\ CurrentSong \in Range(playQueue'))
       => ElementAt(playQueue', currentSongIndex') = CurrentSong]_vars

\* C4 witness: the queue was restored from a playlist view and the pointer
\* is on the track that was current
C4_Witness ==
    /\ lastEvent = Event("toggleShuffle", "restored")
    /\ activeView.type = "playlist"
    /\ CurrentSong # None
    /\ shuffleMode = "none"

\* C5: with a non-empty queue, repeat none and the pointer at the last
\* index, Next sets isPlaying to false and leaves pointer and queue alone.
C5_NextStopsAtEnd ==
    [][(/\ lastEvent'.op = "playNextSong"
        /\ Len(playQueue) > 0
        /\ repeatMode = "none"
        /\ currentSongIndex = Len(playQueue) - 1)
       => (/\ isPlaying' = FALSE
           /\ currentSongIndex' = currentSongIndex
           /\ playQueue' = playQueue)]_vars

\* C5 witness: Next has stopped playback at the last of two tracks
C5_Witness ==
    /\ lastEvent = Event("playNextSong", "stop")
    /\ Len(playQueue) = 2
    /\ currentSongIndex = 1
    /\ ~isPlaying
    /\ repeatMode = "none"

\* C6: with a non-empty queue, repeat all and the pointer at the last index,
\* Next moves the pointer to 0 and isPlaying is true afterwards.
C6_NextWrapsAndPlays ==
    [][(/\ lastEvent'.op = "playNextSong"
        /\ Len(playQueue) > 0
        /\ repeatMode = "all"
        /\ currentSongIndex = Len(playQueue) - 1)
       => (currentSongIndex' = 0 /\ isPlaying' = TRUE)]_vars

\* C7: with the playback position above 3 seconds, Prev sets the position
\* of the current track to 0 and leaves pointer and queue alone, whatever
\* the repeat mode and the index.
C7_PrevRestartsTrack ==
    [][(/\ lastEvent'.op = "playPrevSong"
        /\ Len(playQueue) > 0
        /\ audioCurrentTime > PREV_RESTART_THRESHOLD_S)
       => (/\ audioCurrentTime' = 0
           /\ audioSrc' = audioSrc
           /\ currentSongIndex' = currentSongIndex
           /\ playQueue' = playQueue)]_vars

\* C7 witness: Prev restarted the second track of the queue
C7_Witness ==
    /\ lastEvent = Event("playPrevSong", "restart")
    /\ currentSongIndex = 1
    /\ audioCurrentTime = 0
    /\ audioSrc = CurrentSong

\* C8: with the playback position at most 3 seconds, Prev moves the pointer
\* to index - 1 when index > 0; at index 0 it wraps to the last index under
\* repeat all and otherwise changes nothing.
C8_PrevMovesBack ==
    [][(/\ lastEvent'.op = "playPrevSong"
        /\ Len(playQueue) > 0
        /\ currentSongIndex >= 0
        /\ audioCurrentTime <= PREV_RESTART_THRESHOLD_S)
       => (/\ playQueue' = playQueue
           /\ IF currentSongIndex > 0
              THEN currentSongIndex' = currentSongIndex - 1
              ELSE IF repeatMode = "all"
              THEN currentSongIndex' = Len(playQueue) - 1
              ELSE UNCHANGED <<reactVars, trackerVars, audioVars>>)]_vars

\* C8 witness: Prev moved the pointer from the second track to the first
C8_Witness ==
    /\ lastEvent = Event("playPrevSong", "back")
    /\ Len(playQueue) = 2
    /\ currentSongIndex = 0
    /\ audioSrc = CurrentSong

\* C9: the stored playCount of a song is the playCount it was put with plus
\* the number of increments completed since, every other field and every
\* other record being as put; an increment writes back the record it read
\* in its own transaction.
C9_IncrementsAddUp ==
    /\ \A id \in SongIds :
          putRecord[id] # NoSong =>
             {r \in dbSongs : r.id = id} =
                {[putRecord[id] EXCEPT !.playCount = @ + incDone[id]]}
    /\ tx # NoTx => tx.song = Get(dbSongs, tx.id)

\* C9 witness: two increments of one song have completed beside another
\* stored song
C9_Witness ==
    /\ tx = NoTx
    /\ Cardinality(dbSongs) = 2
    /\ \E id \in SongIds : incDone[id] = 2 /\ Get(dbSongs, id).playCount = 2

\* C10: the store holds exactly one record for every identity addSongs has
\* put and nothing has incremented since, the record submitted last; and
\* for every batch, calling addSongs with it on the store as it is leaves
\* one record per identity of the batch, the one submitted last, and
\* calling it a second time leaves the store as the first call left it.
C10_UpsertIdempotent ==
    /\ \A id \in SongIds :
          (putRecord[id] # NoSong /\ incDone[id] = 0) =>
             {r \in dbSongs : r.id = id} = {putRecord[id]}
    /\ \A batch \in Batches :
          LET once == PutAll(dbSongs, batch)
              twice == PutAll(once, batch)
          IN /\ \A id \in SongIds :
                   LastWithId(batch, id) # NoSong =>
                      {r \in once : r.id = id} = {LastWithId(batch, id)}
             /\ Cardinality(once) = Cardinality(Keys(once))
             /\ twice = once

\* C10 witness: an addSongs call has replaced the stored record of an
\* identity by a different record, and the store holds that one alone
C10_Witness ==
    \E id \in overwritten :
       /\ putRecord[id] # NoSong
       /\ incDone[id] = 0
       /\ {r \in dbSongs : r.id = id} = {putRecord[id]}

\* C11: Pause and Resume change only the playing flag: the queue, the
\* pointer, the position known to the controller and the position held by
\* the media element are after the toggle what they were before it.
C11_PauseResumeKeepsPosition ==
    [][(/\ lastEvent'.op = "handlePlayPause"
        /\ lastEvent'.branch \in {"pause", "resume"})
       => (/\ playQueue' = playQueue
           /\ currentSongIndex' = currentSongIndex
           /\ currentTime' = currentTime
           /\ audioSrc' = audioSrc
           /\ audioCurrentTime' = audioCurrentTime)]_vars

\* C12: with repeat one and a non-empty queue, Next and the ended event
\* leave the pointer, the queue and the loaded source alone, set the
\* media element's position to 0 and start it playing.
C12_RepeatOneReplays ==
    [][(/\ lastEvent'.op \in {"playNextSong", "handleEnded"}
        /\ Len(playQueue) > 0
        /\ repeatMode = "one")
       => (/\ playQueue' = playQueue
           /\ currentSongIndex' = currentSongIndex
           /\ audioSrc' = audioSrc
           /\ audioCurrentTime' = 0
           /\ audioPaused' = FALSE)]_vars

\* C12 witness: the ended event replayed the second track of the queue
\* under repeat one
C12_Witness ==
    /\ lastEvent = Event("handleEnded", "repeatOne")
    /\ repeatMode = "one"
    /\ currentSongIndex = 1
    /\ audioSrc = CurrentSong
    /\ audioCurrentTime = 0
    /\ ~audioPaused

\* C13: when a play() of the current track is rejected by the media
\* element, the controller ends with isPlaying false, at the same pointer
\* and with the same queue.
C13_FailureStopsPlaying ==
    [][lastEvent'.op = "playRejected"
       => (/\ isPlaying' = FALSE
           /\ currentSongIndex' = currentSongIndex
           /\ playQueue' = playQueue)]_vars

\* the number of occurrences of x in s
Count(s, x) == Cardinality({i \in 1..Len(s) : s[i] = x})

\* a and b hold the same identities the same number of times
IsPermutation(a, b) ==
    /\ Len(a) = Len(b)
    /\ \A x \in Range(a) \cup Range(b) : Count(a, x) = Count(b, x)

\* C14: for every list of the view and every identity, playSong with the
\* song in the list makes the queue a permutation of the list (the list
\* itself when the shuffle mode is none), points at the requested song and
\* sets isPlaying, and with the song absent from the list it sets no state;
\* handlePlayPause with an empty queue and a non-empty library plays the
\* first song of the library from the library.
C14_PlayBuildsQueue ==
    /\ [](\A songList \in FilteredAndSortedSongs : \A song \in SongIds :
            \A o \in PlayOutcomes(song, songList) :
               IF song \in Range(songList)
               THEN /\ o.branch = "play"
                    /\ IsPermutation(o.queue, songList)
                    /\ shuffleMode = "none" => o.queue = songList
                    /\ ElementAt(o.queue, o.index) = song
                    /\ o.playing = TRUE
               ELSE /\ o.branch = "absent"
                    /\ o.queue = playQueue
                    /\ o.index = currentSongIndex
                    /\ o.playing = isPlaying)
    /\ [][/\ lastEvent' = Event("playSong", "play") =>
                (/\ Range(playQueue') \subseteq Range(ViewItems)
                 /\ ElementAt(playQueue', currentSongIndex') # None
                 /\ isPlaying' = TRUE)
          /\ (lastEvent'.op = "handlePlayPause" /\ Len(playQueue) = 0
                 /\ Len(songs) > 0)
                => (/\ IsPermutation(playQueue', songs)
                    /\ shuffleMode = "none" => playQueue' = songs
                    /\ ElementAt(playQueue', currentSongIndex') = songs[1]
                    /\ isPlaying' = TRUE)]_vars

\* C14 witness: playSong under a shuffle mode built a queue of two tracks
\* and points at its second track
C14_Witness ==
    /\ lastEvent = Event("playSong", "play")
    /\ shuffleMode # "none"
    /\ Len(playQueue) = 2
    /\ currentSongIndex = 1
    /\ isPlaying

\* C15: a step that completes an import (addSongs, setSongs) or a play-count
\* increment (the store's write, the setSongs of its then-callback) leaves
\* the queue, element for element, and the pointer as they were.
C15_QueueIsSnapshot ==
    [][(\/ lastEvent'.op \in {"scanFiles", "incrementResolved"}
        \/ dbSongs' # dbSongs
        \/ songs' # songs)
       => (playQueue' = playQueue /\ currentSongIndex' = currentSongIndex)]_vars

\* C15 witness: with a queue built and a play-count increment written, an
\* import has made the library longer than the queue
C15_Witness ==
    /\ lastEvent = Event("scanFiles", "done")
    /\ Len(playQueue) > 0
    /\ currentSongIndex = 0
    /\ Len(songs) > Len(playQueue)
    /\ \E id \in Range(playQueue) : incDone[id] > 0

\* C16: the stored playCount of every song is a natural number, and no step
\* (import, initial load, play-count increment) makes the stored playCount
\* of a song smaller or removes the song.
C16_PlayCountNeverDecreases ==
    [][/\ \A r \in dbSongs' : r.playCount \in Nat
       /\ \A r \in dbSongs :
             \E r2 \in dbSongs' : r2.id = r.id /\ r2.playCount >= r.playCount]_vars

\* C17: the library holds at most one song per identity: the keys of the
\* store's records are distinct, and no identity occurs twice in the
\* in-memory list of songs.
C17_OneSongPerIdentity ==
    /\ Cardinality(dbSongs) = Cardinality(Keys(dbSongs))
    /\ \A id \in SongIds : Count(songs, id) <= 1

\* C18: getShuffledQueue called in mode none returns the source, element
\* for element in the caller's order.
C18_NoneKeepsSourceOrder ==
    built.mode = "none" => built.queue = built.arg

\* C18 witness: a list of MaxQueue entries holding two identities, one of
\* them twice, was built in mode none
C18_Witness ==
    /\ built.mode = "none"
    /\ Len(built.arg) = MaxQueue
    /\ Cardinality(Range(built.arg)) = 2
    /\ built.queue = built.arg

\* C19: getShuffledQueue called in mode random or weighted returns a
\* permutation of the source (the same identities the same number of times)
\* and leaves the caller's array as it was.
C19_ShuffleIsPermutation ==
    built.mode \in {"random", "weighted"} =>
       (IsPermutation(built.queue, built.arg) /\ built.source = built.arg)

\* C19 witness: a weighted shuffle returned the source in another order
C19_Witness ==
    /\ built.mode = "weighted"
    /\ Len(built.arg) = MaxQueue
    /\ built.queue # built.arg
    /\ built.source = built.arg
    /\ IsPermutation(built.queue, built.arg)

\* C20: when toggleShuffle rebuilds the queue from the active view and the
\* track that was current is not in that view, the player is not left with
\* a non-empty queue, a pointer that designates no track and isPlaying
\* true.
C20_AbsentIdentityStops ==
    [][(/\ lastEvent' = Event("toggleShuffle", "restored")
        /\ ElementAt(playQueue, currentSongIndex) \notin Range(OriginalList))
       => ~(/\ Len(playQueue') > 0
            /\ ElementAt(playQueue', currentSongIndex') = None
            /\ isPlaying')]_vars

\* C21: a seek on a loaded track leaves the position, and the position
\* forwarded to the media element, within 0 and the duration of the current
\* track, and leaves isPlaying, the queue and the pointer unchanged.
C21_SeekClampsToDuration ==
    [][(/\ lastEvent' = Event("handleSeek", "seekBar")
        /\ ElementAt(playQueue, currentSongIndex) # None)
       => /\ currentTime' \in 0..SongDuration(ElementAt(playQueue, currentSongIndex))
          /\ audioCurrentTime' \in 0..SongDuration(ElementAt(playQueue, currentSongIndex))
          /\ UNCHANGED <<isPlaying, playQueue, currentSongIndex>>]_vars

\* C22: toggleShuffle moves the shuffle mode none -> random -> weighted ->
\* none and toggleRepeat moves the repeat mode none -> all -> one -> none,
\* so three toggles in a row give the mode back; toggleRepeat changes
\* nothing but the repeat mode.
C22_TogglesCycle ==
    [][LET shuffleCycle == [none |-> "random", random |-> "weighted",
                            weighted |-> "none"]
           repeatCycle == [none |-> "all", all |-> "one", one |-> "none"]
           Thrice(modes, m) ==
               NextMode(modes, NextMode(modes, NextMode(modes, m)))
       IN /\ lastEvent'.op = "toggleShuffle" =>
                /\ shuffleMode' = shuffleCycle[shuffleMode]
                /\ Thrice(ShuffleModes, shuffleMode) = shuffleMode
          /\ lastEvent'.op = "toggleRepeat" =>
                /\ repeatMode' = repeatCycle[repeatMode]
                /\ Thrice(RepeatModes, repeatMode) = repeatMode
                /\ UNCHANGED <<songs, playlists, activeView, isLoading,
                               currentSongIndex, playQueue, isPlaying,
                               currentTime, shuffleMode>>
                /\ UNCHANGED <<trackerVars, audioVars, dbVars>>]_vars

\* C22 witness: the third toggleRepeat in a row has brought the repeat mode
\* back to none while a track plays under a shuffle mode
C22_Witness ==
    /\ lastEvent = Event("toggleRepeat", "-")
    /\ repeatMode = "none"
    /\ shuffleMode = "weighted"
    /\ isPlaying
    /\ Len(playQueue) > 1

\* C23: adding a song to a playlist that already holds it writes nothing
\* and starts nothing, and no playlist, in memory or in the store, ever
\* holds the same identity twice.
C23_NoDuplicateInPlaylist ==
    /\ [](/\ \A p \in DOMAIN playlists :
                \A id \in SongIds : Count(playlists[p], id) <= 1
          /\ \A p \in DOMAIN dbPlaylists :
                \A id \in SongIds : Count(dbPlaylists[p], id) <= 1)
    /\ [][lastEvent' = Event("handleAddSongToPlaylist", "present")
             => UNCHANGED <<dbPlaylists, playlists, adding>>]_vars

\* C23 witness: an add of a song the playlist already held was ignored,
\* the playlist holding every song of the library
C23_Witness ==
    /\ lastEvent = Event("handleAddSongToPlaylist", "present")
    /\ \E p \in DOMAIN playlists : Len(playlists[p]) = NumSongs
    /\ dbPlaylists = playlists

\* C24: the list shown for a playlist holds no unresolved identity, and a
\* toggleShuffle on a queue of resolved songs with a current track neither
\* throws nor puts an unresolved (undefined) element into the queue.
C24_DanglingIdsFilteredOut ==
    [][/\ \A songList \in FilteredAndSortedSongs : None \notin Range(songList)
       /\ (/\ lastEvent'.op = "toggleShuffle"
           /\ None \notin Range(playQueue)
           /\ ElementAt(playQueue, currentSongIndex) # None)
          => /\ lastEvent'.branch # "threw"
             /\ None \notin Range(playQueue')]_vars

\* C25: when the loop of scanFiles has ended, every file of the batch with a
\* supported extension whose name the library did not hold has a Song in
\* newSongs, also when its tags could not be read or lack a field: the
\* title is then the file name without the extension, the artist "Unknown
\* Artist", the album "Unknown Album", and playCount is 0.
C25_UntaggedFilesAreStored ==
    scan.stage \in {"scanned", "empty"} =>
       \A i \in 1..Len(scan.files) :
          LET file == scan.files[i]
              Absent(v) == v \in {None, "", "ERROR"}
          IN (file.extension \in SUPPORTED_FORMATS /\ file.name \notin Range(songs))
             => \E j \in 1..Len(scan.records) :
                   LET song == scan.records[j]
                   IN /\ song.id = file.name
                      /\ song.playCount = 0
                      /\ Absent(file.tags.title) => song.title = file.name
                      /\ Absent(file.tags.artist) => song.artist = "Unknown Artist"
                      /\ Absent(file.tags.album) => song.album = "Unknown Album"

C28_CountedOnlyAfterOwnThreshold ==
    [][/\ lastCall'.id # None => isPlaying'
       /\ (/\ ElementAt(playQueue, currentSongIndex) # None
           /\ currentSongIndex' # currentSongIndex
           /\ lastEvent'.op \in {"playNextSong", "handleEnded", "playPrevSong",
                                 "playSong"})
          => lastCall'.id = None]_vars

\* C29: a toggleShuffle while a track is loaded and current leaves the
\* media element alone: the source is not loaded again and the playback
\* position is kept.
C29_ShuffleKeepsPlayback ==
    [][(/\ lastEvent'.op = "toggleShuffle"
        /\ ElementAt(playQueue, currentSongIndex) # None
        /\ audioSrc = ElementAt(playQueue, currentSongIndex))
       => UNCHANGED <<audioSrc, audioCurrentTime, audioPaused>>]_vars

\* C30: when toggleShuffle selects a shuffle mode on a queue with a current
\* track, the queues it can build are those of the newly selected mode; in
\* particular, from none to random on two or more songs, orders other than
\* the present one.
C30_ShuffledByNewMode ==
    LET newMode == NextMode(ShuffleModes, shuffleMode)
    IN (/\ newMode # "none"
        /\ Len(playQueue) >= 2
        /\ ElementAt(playQueue, currentSongIndex) # None)
       => ToggleQueues = getShuffledQueue(playQueue, newMode)

\* C31: when a toggle of the shuffle mode lands on none while a track is
\* active and the list shown is the one the row click handed to playSong
\* (the view has not changed), the rebuilt queue is that list: the active
\* view with its search filter and its sort applied.
C31_RestoredQueueIsSourceView ==
    [][(/\ lastEvent'.op = "toggleShuffle"
        /\ lastEvent'.branch = "restored"
        /\ supplied = filteredAndSortedSongs)
       => playQueue' = supplied]_vars

\* C32: at no time are two incrementPlayCount calls for the same identity
\* in flight: the identities of the calls that have not settled are
\* pairwise different.
C32_OneCallInFlightPerIdentity ==
    \A i, j \in 1..Len(incrementing) :
        i # j => incrementing[i] # incrementing[j]

\* C33: in weighted mode the weight of every song is max(total - playCount,
\* 1), total being the sum of the play counts of the source; it is at least
\* 1 for every song, also in a source of one song and in a source whose
\* play counts are all 0.
C33_Total(playCounts) ==
    LET RECURSIVE SumTo(_)
        SumTo(n) == IF n = 0 THEN 0 ELSE SumTo(n - 1) + playCounts[n]
    IN SumTo(Len(playCounts))

C33_WeightIsAtLeastOne ==
    \A i \in 1..Len(weighed.weights) :
        LET difference == C33_Total(weighed.playCounts) - weighed.playCounts[i]
        IN /\ weighed.weights[i] = IF difference > 1 THEN difference ELSE 1
           /\ weighed.weights[i] >= 1

\* a source of one song, played twice: the difference is 0, the weight 1
C33_Witness ==
    /\ weighed.playCounts = <<2>>
    /\ weighed.weights = <<1>>

\* C34: in every reachable state the cursor is well formed: the index is -1
\* when the queue is empty, and when the queue is not empty the index is
\* within it and the song under it is defined.
C34_CursorWellFormed ==
    IF playQueue = <<>>
    THEN currentSongIndex = -1
    ELSE /\ 0 <= currentSongIndex
         /\ currentSongIndex < Len(playQueue)
         /\ ElementAt(playQueue, currentSongIndex) # None

\* C35: after every transition in which the controller starts or stops the
\* media element, the playing flag agrees with what the element was last
\* told: it was told to play if and only if isPlaying is true.  (The
\* element stopping by itself on a rejected play() is not a command.)
C35_PlayingAgreesWithBackend ==
    [][(audioPaused' # audioPaused /\ lastEvent'.op # "playRejected")
       => (isPlaying' = ~audioPaused')]_vars

\* C36: when the last pending playlist operation completes, and it was
\* called with the playlists loaded, the playlists in memory are the
\* playlists of the store: no created playlist and no added song is
\* missing from either.
C36_MemoryEqualsStoreWhenSettled ==
    [][(/\ adding # <<>>
        /\ adding' = <<>>
        /\ DOMAIN adding[1].playlists # {})
       => (/\ DOMAIN playlists' = DOMAIN dbPlaylists'
           /\ \A p \in DOMAIN playlists' : playlists'[p] = dbPlaylists'[p])]_vars

\* C37: every import scan that starts eventually finishes with the scanning
\* flag cleared, whatever the batch, also when the tags of some files
\* cannot be read and when the store rejects the write of the batch.
C37_ScanFinishes == (scan # NoScan) ~> (scan = NoScan)

\* C38: once the activate handler has completed, every cache whose name is
\* not the current cache name has been deleted and the cache with the
\* current name has not been deleted, whatever caches there were before.
C38_OnlyCurrentCacheLeft ==
    activation.stage = "done"
    => (/\ \A cacheName \in caches : cacheName = CACHE_NAME
        /\ \A cacheName \in activation.before :
              cacheName # CACHE_NAME => cacheName \in activation.deleted
        /\ CACHE_NAME \notin activation.deleted
        /\ CACHE_NAME \in activation.before => CACHE_NAME \in caches)

\* the handler has completed over the current cache and three others
C38_Witness ==
    /\ activation.stage = "done"
    /\ activation.before = CacheNames
    /\ caches = {CACHE_NAME}

=============================================================================
